---- MODULE Spec2Model ----
(***************************************************************************)
(* A model of the markdown engine of yardobr/mdviewer (src/index.ts): the  *)
(* cursor-driven block parser MarkdownParser, its inline parser, the       *)
(* renderer MarkdownRenderer, processCollapsibleSections, and the pipeline *)
(* MarkdownEditor.updatePreview runs over the editor's text.               *)
(*                                                                         *)
(* A string is a sequence of one-character strings; positions are 0-based  *)
(* as in the source.  A rendered string is a sequence of records           *)
(* [c |-> character, src |-> provenance], where the provenance says        *)
(* whether the character is a literal of a template in the source, was     *)
(* copied from the user's text, was written by escapeHTML, or was inserted  *)
(* by highlightCode.                                                       *)
(*                                                                         *)
(* this.headings refers to an array: array is the identity of that array   *)
(* and headings its contents.  returned holds what the calls of parse()    *)
(* have returned so far, each with the identity of the headings array it   *)
(* handed out and with the contents that array has now.                    *)
(*                                                                         *)
(* editor holds the value of the textarea and the field updateTimeout of   *)
(* MarkdownEditor (0 for null), timers the handles window.setTimeout has   *)
(* issued that are still pending and the last handle issued, and document  *)
(* the expandable images of the preview, which of them carry the class     *)
(* expanded, and the overlays appended to the body, each with the image    *)
(* its click handler closes over.                                          *)
(*                                                                         *)
(* The variants in src/unnamed are modelled behind the editor: part_001    *)
(* (parseMarkdown, which rewrites the text by regular expressions),        *)
(* part_000 and part_002 (MarkdownParser.parse, line by line).  Their      *)
(* strings are plain sequences of characters with 1-based indices.         *)
(***************************************************************************)
EXTENDS Naturals, Sequences, FiniteSets, TLC

VARIABLES text, position, ast, headings, html, toc, codeBlocks, returned,
          array, tocItems, editor, timers, document, pc

vars ==
    <<text, position, ast, headings, html, toc, codeBlocks, returned, array,
      tocItems, editor, timers, document, pc>>

\* ------------------------------------------------------------------------
\* JavaScript string primitives
\* ------------------------------------------------------------------------

\* text[i] for an index outside the string
Undefined == "undefined"

NL == "\n"

TAB == "\t"

\* the backtick character, which a string literal of this language cannot hold
Backtick == "backtick"

Min(a, b) == IF a < b THEN a ELSE b

Max(a, b) == IF a < b THEN b ELSE a

\* const x = v; followed by B(x): v is computed once however often B uses x
\* (a device of this notation: it stands for no code of its own)
Let(v, B(_)) == CHOOSE y \in {B(x) : x \in {v}} : TRUE

\* the least number of a set of numbers, 0 when the set is empty
Least(S) == IF S = {} THEN 0 ELSE CHOOSE j \in S : \A k \in S : j <= k

\* text[i], 0-based
At(t, i) == IF i >= 0 /\ i < Len(t) THEN t[i + 1] ELSE Undefined

\* String.prototype.substring(a, b): both ends clamped to [0, length], swapped
\* when a > b
Substring(t, a, b) ==
    Let(Min(Max(a, 0), Len(t)), LAMBDA x :
    Let(Min(Max(b, 0), Len(t)), LAMBDA y :
        SubSeq(t, Min(x, y) + 1, Max(x, y))))

\* the white space String.prototype.trim removes and the regular
\* expression class \s matches
JsWhiteSpace == {" ", "\t", "\n", "\r"}

RECURSIVE TrimStart(_)
TrimStart(t) ==
    IF t # <<>> /\ Head(t) \in JsWhiteSpace THEN TrimStart(Tail(t)) ELSE t

RECURSIVE TrimEnd(_)
TrimEnd(t) ==
    IF t # <<>> /\ t[Len(t)] \in JsWhiteSpace
    THEN TrimEnd(SubSeq(t, 1, Len(t) - 1))
    ELSE t

\* String.prototype.trim
Trim(t) == TrimEnd(TrimStart(t))

Digits == {"0", "1", "2", "3", "4", "5", "6", "7", "8", "9"}

\* char >= '0' && char <= '9'
isDigit(c) == c \in Digits

\* ------------------------------------------------------------------------
\* MarkdownParser: helper methods
\* ------------------------------------------------------------------------

isWhitespace(c) == c = " " \/ c = TAB

\* skipWhitespace, as a function of the cursor
RECURSIVE skipWhitespace(_, _)
skipWhitespace(t, p) ==
    IF p < Len(t) /\ isWhitespace(At(t, p)) THEN skipWhitespace(t, p + 1) ELSE p

\* skipUntilNewline, as a function of the cursor
RECURSIVE skipUntilNewline(_, _)
skipUntilNewline(t, p) ==
    IF p < Len(t) /\ At(t, p) # NL THEN skipUntilNewline(t, p + 1) ELSE p

\* while (p < length && text[p] === c) p++
RECURSIVE SkipChar(_, _, _)
SkipChar(t, p, c) ==
    IF p < Len(t) /\ At(t, p) = c THEN SkipChar(t, p + 1, c) ELSE p

\* while (p < length && text[p] !== c) p++
RECURSIVE FindChar(_, _, _)
FindChar(t, p, c) ==
    IF p < Len(t) /\ At(t, p) # c THEN FindChar(t, p + 1, c) ELSE p

\* while (p < length && text[p] is a digit) p++
RECURSIVE SkipDigits(_, _)
SkipDigits(t, p) ==
    IF p < Len(t) /\ isDigit(At(t, p)) THEN SkipDigits(t, p + 1) ELSE p

\* skipEmptyLines, as a function of the cursor: a line of white space only is
\* skipped with its newline; at a line holding anything else the cursor goes
\* back to the line's start
RECURSIVE skipEmptyLines(_, _)
skipEmptyLines(t, p) ==
    IF p >= Len(t) THEN p
    ELSE IF At(t, p) = NL THEN skipEmptyLines(t, p + 1)
    ELSE IF isWhitespace(At(t, p))
         THEN Let(skipWhitespace(t, p), LAMBDA q :
                  IF q < Len(t) /\ At(t, q) # NL
                  THEN p
                  ELSE skipEmptyLines(t, q + 1))
    ELSE p

isHorizontalRule(t, p) ==
    \E char \in {At(t, p)} :
        /\ ~(p + 2 >= Len(t))
        /\ char \in {"-", "*", "_"}
        /\ At(t, p + 1) = char
        /\ At(t, p + 2) = char
        /\ \A i \in p .. (skipUntilNewline(t, p) - 1) :
               At(t, i) = char \/ isWhitespace(At(t, i))

\* ------------------------------------------------------------------------
\* MarkdownParser.parseInline
\* ------------------------------------------------------------------------

\* the test that opens the italic branch, and that ends a run of plain text
ItalicStart(t, pos) ==
    /\ At(t, pos) = "*"
    /\ (pos = 0 \/ At(t, pos - 1) # "*")
    /\ (pos + 1 < Len(t) /\ At(t, pos + 1) # "*")

\* the test that opens the bold branch
BoldStart(t, pos) ==
    pos + 1 < Len(t) /\ Substring(t, pos, pos + 2) = <<"*", "*">>

\* the test that opens the image branch
ImageStart(t, pos) ==
    pos + 1 < Len(t) /\ Substring(t, pos, pos + 2) = <<"!", "[">>

\* while (pos < len && text.substring(pos, pos + 2) !== '**') pos++
RECURSIVE FindBoldEnd(_, _)
FindBoldEnd(t, pos) ==
    IF pos < Len(t) /\ Substring(t, pos, pos + 2) # <<"*", "*">>
    THEN FindBoldEnd(t, pos + 1)
    ELSE pos

\* the search for the bracket closing a link's text, nested brackets counted
RECURSIVE FindClosingBracket(_, _, _)
FindClosingBracket(t, nextPos, nestedBrackets) ==
    IF nextPos < Len(t) /\ ~(At(t, nextPos) = "]" /\ nestedBrackets = 0)
    THEN FindClosingBracket(t, nextPos + 1,
             IF At(t, nextPos) = "[" THEN nestedBrackets + 1
             ELSE IF At(t, nextPos) = "]" THEN nestedBrackets - 1
             ELSE nestedBrackets)
    ELSE nextPos

\* the loop that collects plain text up to the start of an inline element
RECURSIVE PlainTextEnd(_, _)
PlainTextEnd(t, pos) ==
    IF pos < Len(t)
       /\ ~(\/ BoldStart(t, pos)
            \/ ItalicStart(t, pos)
            \/ At(t, pos) = Backtick
            \/ At(t, pos) = "["
            \/ ImageStart(t, pos))
    THEN PlainTextEnd(t, pos + 1)
    ELSE pos

\* what one pass of the loop adds and where it leaves pos
Pass(nodes, pos) == [nodes |-> nodes, pos |-> pos]

BoldBranch(t, pos) ==
    Let(FindBoldEnd(t, pos + 2), LAMBDA end :
        Pass(<<[type |-> "bold", content |-> Substring(t, pos + 2, end)]>>,
             IF end < Len(t) THEN end + 2 ELSE end))

ItalicBranch(t, pos) ==
    Let(FindChar(t, pos + 1, "*"), LAMBDA end :
        Pass(<<[type |-> "italic", content |-> Substring(t, pos + 1, end)]>>,
             IF end < Len(t) THEN end + 1 ELSE end))

InlineCodeBranch(t, pos) ==
    Let(FindChar(t, pos + 1, Backtick), LAMBDA end :
        Pass(<<[type |-> "inline_code",
                content |-> Substring(t, pos + 1, end)]>>,
             IF end < Len(t) THEN end + 1 ELSE end))

\* the link branch: <<>> when it falls through without a node
LinkBranch(t, pos) ==
    Let(FindClosingBracket(t, pos + 1, 0), LAMBDA nextPos :
    Let(FindChar(t, nextPos + 2, ")"), LAMBDA urlEnd :
        IF /\ At(t, pos) = "["
           /\ nextPos < Len(t) /\ At(t, nextPos) = "]"
           /\ nextPos + 1 < Len(t) /\ At(t, nextPos + 1) = "("
           /\ urlEnd < Len(t)
        THEN <<Pass(<<[type |-> "link",
                       content |-> Substring(t, pos + 1, nextPos),
                       url |-> Substring(t, nextPos + 2, urlEnd)]>>,
                    urlEnd + 1)>>
        ELSE <<>>))

\* the image branch: <<>> when it falls through without a node
ImageBranch(t, pos) ==
    Let(FindChar(t, pos + 2, "]"), LAMBDA nextPos :
    Let(FindChar(t, nextPos + 2, ")"), LAMBDA urlEnd :
        IF /\ ImageStart(t, pos)
           /\ nextPos < Len(t) /\ At(t, nextPos) = "]"
           /\ nextPos + 1 < Len(t) /\ At(t, nextPos + 1) = "("
           /\ urlEnd < Len(t)
        THEN <<Pass(<<[type |-> "image",
                       alt |-> Substring(t, pos + 2, nextPos),
                       url |-> Substring(t, nextPos + 2, urlEnd)]>>,
                    urlEnd + 1)>>
        ELSE <<>>))

PlainTextBranch(t, pos) ==
    Let(PlainTextEnd(t, pos), LAMBDA end :
        Pass(IF end > pos
             THEN <<[type |-> "text", content |-> Substring(t, pos, end)]>>
             ELSE <<>>,
             end))

\* one pass of the loop while (pos < len) of parseInline, entered at pos
InlinePass(t, pos) ==
    IF BoldStart(t, pos) THEN BoldBranch(t, pos)
    ELSE IF ItalicStart(t, pos) THEN ItalicBranch(t, pos)
    ELSE IF At(t, pos) = Backtick THEN InlineCodeBranch(t, pos)
    ELSE Let(LinkBranch(t, pos), LAMBDA link :
         IF link # <<>> THEN link[1]
         ELSE Let(ImageBranch(t, pos), LAMBDA image :
              IF image # <<>> THEN image[1]
              ELSE PlainTextBranch(t, pos)))

\* A pass that pushes no node and leaves pos where it was changes nothing
\* the loop reads: the loop then repeats that pass for ever.
Spins(pass, pos) == pass.nodes = <<>> /\ pass.pos = pos

\* the loop of parseInline from pos on: the nodes pushed, and whether the
\* loop reaches a pass it repeats for ever instead of returning
RECURSIVE InlineLoop(_, _, _)
InlineLoop(t, pos, nodes) ==
    IF ~(pos < Len(t)) THEN [nodes |-> nodes, diverges |-> FALSE]
    ELSE Let(InlinePass(t, pos), LAMBDA pass :
         IF Spins(pass, pos) THEN [nodes |-> nodes, diverges |-> TRUE]
         ELSE InlineLoop(t, pass.pos, nodes \o pass.nodes))

parseInline(t) == InlineLoop(t, 0, <<>>)

\* ------------------------------------------------------------------------
\* MarkdownParser: the block parsers, each a function of the text and the
\* cursor.  A result holds the node returned (none when the call returns
\* null or never returns), the cursor the call leaves, the headings it
\* pushes, and whether a call of parseInline it makes never returns.
\* ------------------------------------------------------------------------

Block(node, pos, heads) ==
    [node |-> node, position |-> pos, headings |-> heads, diverges |-> FALSE]

\* the call is stuck in parseInline: the cursor stays where it was at the
\* call and nothing is returned
Stuck(pos) ==
    [node |-> <<>>, position |-> pos, headings |-> <<>>, diverges |-> TRUE]

\* return { type, content, children: this.parseInline(content) } with the
\* cursor at pos: the node, once parseInline has returned its children
InlineBlock(type, content, pos) ==
    Let(parseInline(content), LAMBDA inline :
        IF inline.diverges THEN Stuck(pos)
        ELSE Block(<<[type |-> type, content |-> content,
                      children |-> inline.nodes]>>,
                   pos, <<>>))

\* the heading node of the given level parseHeading builds, pushes onto
\* this.headings and returns, once parseInline has returned its children
HeadingBlock(level, content, pos) ==
    Let(parseInline(content), LAMBDA inline :
        IF inline.diverges THEN Stuck(pos)
        ELSE Let([type |-> "heading", level |-> level, content |-> content,
                  children |-> inline.nodes], LAMBDA heading :
             Block(<<heading>>, pos, <<heading>>)))

\* parseHeading without level = Math.min(level, 6): the level is the number
\* of marker characters, whatever it is
parseHeadingUnclamped(t, p) ==
    Let(SkipChar(t, p, "#"), LAMBDA afterMarks :
    Let(skipWhitespace(t, afterMarks), LAMBDA contentStart :
    Let(skipUntilNewline(t, contentStart), LAMBDA lineEnd :
        HeadingBlock(afterMarks - p,
                     Trim(Substring(t, contentStart, lineEnd)),
                     lineEnd + 1))))

parseHeading(t, p) ==
    Let(SkipChar(t, p, "#"), LAMBDA afterMarks :
    Let(skipWhitespace(t, afterMarks), LAMBDA contentStart :
    Let(skipUntilNewline(t, contentStart), LAMBDA lineEnd :
        HeadingBlock(Min(afterMarks - p, 6),
                     Trim(Substring(t, contentStart, lineEnd)),
                     lineEnd + 1))))

\* parseHorizontalRule returning its node with the cursor left where it was
parseHorizontalRuleInPlace(t, p) ==
    Block(<<[type |-> "hr"]>>, p, <<>>)

parseHorizontalRule(t, p) ==
    Block(<<[type |-> "hr"]>>,
          skipUntilNewline(t, SkipChar(t, p, At(t, p))) + 1, <<>>)

\* Array.prototype.join
RECURSIVE Join(_, _)
Join(lines, sep) ==
    IF lines = <<>> THEN <<>>
    ELSE IF Len(lines) = 1 THEN lines[1]
    ELSE lines[1] \o sep \o Join(Tail(lines), sep)

\* the loop of parseBlockquote: the lines read and the cursor left
RECURSIVE BlockquoteLoop(_, _, _)
BlockquoteLoop(t, p, lines) ==
    IF p < Len(t)
    THEN Let(IF At(t, p) = ">" THEN skipWhitespace(t, p + 1) ELSE p,
             LAMBDA lineStart :
         Let(skipUntilNewline(t, lineStart), LAMBDA lineEnd :
             IF \/ lineEnd + 1 >= Len(t)
                \/ (At(t, lineEnd) = NL /\ At(t, lineEnd + 1) # ">")
             THEN [lines |-> Append(lines, Substring(t, lineStart, lineEnd)),
                   position |-> lineEnd + 1]
             ELSE BlockquoteLoop(t, lineEnd + 1,
                      Append(lines, Substring(t, lineStart, lineEnd)))))
    ELSE [lines |-> lines, position |-> p]

parseBlockquote(t, p) ==
    Let(BlockquoteLoop(t, p, <<>>), LAMBDA loop :
        InlineBlock("blockquote", Join(loop.lines, <<NL>>), loop.position))

Fence == <<Backtick, Backtick, Backtick>>

\* the search for the closing fence: three backticks at the start of a line
RECURSIVE FindClosingFence(_, _)
FindClosingFence(t, p) ==
    IF p < Len(t)
       /\ ~(/\ Substring(t, p, p + 3) = Fence
            /\ (p = 0 \/ At(t, p - 1) = NL))
    THEN FindClosingFence(t, p + 1)
    ELSE p

\* the cursor after the closing fence found at p (none found: p >= length)
AfterClosingFence(t, p) ==
    IF p < Len(t)
    THEN Let(skipUntilNewline(t, p + 3), LAMBDA q :
             IF q < Len(t) THEN q + 1 ELSE q)
    ELSE p

\* parseCodeBlock giving up at a fence that is never closed: the block is
\* the opening line alone and the text behind it is left to later blocks
parseCodeBlockOpeningLineOnly(t, p) ==
    Let(skipUntilNewline(t, p + 3), LAMBDA languageEnd :
    Let(FindClosingFence(t, languageEnd + 1), LAMBDA contentEnd :
        IF contentEnd < Len(t)
        THEN Block(<<[type |-> "code",
                      content |->
                          Trim(Substring(t, languageEnd + 1, contentEnd)),
                      language |-> Trim(Substring(t, p + 3, languageEnd))]>>,
                   AfterClosingFence(t, contentEnd), <<>>)
        ELSE Block(<<[type |-> "code",
                      content |-> <<>>,
                      language |-> Trim(Substring(t, p + 3, languageEnd))]>>,
                   languageEnd + 1, <<>>)))

parseCodeBlock(t, p) ==
    Let(skipUntilNewline(t, p + 3), LAMBDA languageEnd :
    Let(FindClosingFence(t, languageEnd + 1), LAMBDA contentEnd :
        Block(<<[type |-> "code",
                 content |-> Trim(Substring(t, languageEnd + 1, contentEnd)),
                 language |-> Trim(Substring(t, p + 3, languageEnd))]>>,
              AfterClosingFence(t, contentEnd), <<>>)))

\* the character that makes the next line a new item of the list being read
IsItemStart(ordered, nextChar) ==
    \/ (ordered /\ isDigit(nextChar))
    \/ (~ordered /\ nextChar \in {"-", "*", "+"})

\* the loop reading an item's content: it stops at a newline whose next line,
\* after its indentation, starts with a marker character of the list's kind
\* or is empty, and at the end of the text
RECURSIVE ItemEnd(_, _, _)
ItemEnd(t, p, ordered) ==
    IF p < Len(t)
       /\ ~(At(t, p) = NL
            /\ \E pos \in {skipWhitespace(t, p + 1)} :
                   /\ pos < Len(t)
                   /\ (IsItemStart(ordered, At(t, pos)) \/ At(t, pos) = NL))
    THEN ItemEnd(t, p + 1, ordered)
    ELSE p

\* the marker of parseList at p, the indentation skipped: whether one is
\* found, and the cursor left (behind the marker and the white space after
\* it, or behind what was read before the marker was found missing)
ListMarker(t, p, ordered) ==
    IF ordered
    THEN Let(SkipDigits(t, p), LAMBDA afterDigits :
             IF afterDigits < Len(t) /\ At(t, afterDigits) = "."
             THEN [found |-> TRUE,
                   position |-> skipWhitespace(t, afterDigits + 1)]
             ELSE [found |-> FALSE, position |-> afterDigits])
    ELSE IF p < Len(t) /\ At(t, p) \in {"-", "*", "+"}
         THEN [found |-> TRUE, position |-> skipWhitespace(t, p + 1)]
         ELSE [found |-> FALSE, position |-> p]

\* what parseList does with an item whose marker was read: contentStart is
\* the cursor behind the marker
RECURSIVE ListLoop(_, _, _, _, _)
ListItem(t, contentStart, ordered, items, indent) ==
    Let(ItemEnd(t, contentStart, ordered), LAMBDA contentEnd :
    Let(Trim(Substring(t, contentStart, contentEnd)), LAMBDA content :
    Let(parseInline(content), LAMBDA inline :
    Let(IF contentEnd < Len(t) /\ At(t, contentEnd) = NL
        THEN contentEnd + 1
        ELSE contentEnd, LAMBDA afterNewline :
    Let(Append(items, [type |-> "list_item", content |-> content,
                       children |-> inline.nodes]), LAMBDA pushed :
        IF inline.diverges
        THEN [items |-> items, position |-> contentEnd, diverges |-> TRUE]
        ELSE IF afterNewline < Len(t) /\ At(t, afterNewline) = NL
             THEN [items |-> pushed, position |-> afterNewline + 1,
                   diverges |-> FALSE]
             ELSE ListLoop(t, afterNewline, ordered, pushed, indent))))))

\* the loop of parseList: the items read, the cursor left
ListLoop(t, p, ordered, items, currentIndent) ==
    IF p < Len(t)
    THEN Let(skipWhitespace(t, p), LAMBDA afterIndent :
             IF items = <<>> \/ afterIndent - p = currentIndent
             THEN Let(ListMarker(t, afterIndent, ordered), LAMBDA marker :
                      IF marker.found
                      THEN ListItem(t, marker.position, ordered, items,
                                    afterIndent - p)
                      ELSE [items |-> items, position |-> marker.position,
                            diverges |-> FALSE])
             ELSE [items |-> items, position |-> afterIndent,
                   diverges |-> FALSE])
    ELSE [items |-> items, position |-> p, diverges |-> FALSE]

parseList(t, p, ordered) ==
    Let(ListLoop(t, p, ordered, <<>>, 0), LAMBDA loop :
        IF loop.diverges
        THEN Stuck(loop.position)
        ELSE Block(<<[type |-> "list", ordered |-> ordered,
                      children |-> loop.items]>>,
                   loop.position, <<>>))

\* the test of parseParagraph at a newline: the next line is empty or starts
\* with a character a block starts with
ParagraphBreak(t, nextPos) ==
    \/ nextPos >= Len(t)
    \/ At(t, nextPos) \in {NL, "#", ">", "-", "*", "+"}
    \/ Substring(t, nextPos, nextPos + 3) = Fence
    \/ (isDigit(At(t, nextPos)) /\ nextPos + 1 < Len(t)
        /\ At(t, nextPos + 1) = ".")

RECURSIVE ParagraphEnd(_, _)
ParagraphEnd(t, p) ==
    IF p < Len(t) /\ ~(At(t, p) = NL /\ ParagraphBreak(t, p + 1))
    THEN ParagraphEnd(t, p + 1)
    ELSE p

parseParagraph(t, p) ==
    Let(ParagraphEnd(t, p), LAMBDA end :
        InlineBlock("paragraph", Trim(Substring(t, p, end)),
                    IF end < Len(t) /\ At(t, end) = NL THEN end + 1 ELSE end))

\* the test of parseBlock for an ordered list: digits, a dot, white space
OrderedMarkerAt(t, p) ==
    /\ isDigit(At(t, p))
    /\ \E pos \in {SkipDigits(t, p + 1)} :
           /\ pos < Len(t) /\ At(t, pos) = "."
           /\ pos + 1 < Len(t) /\ isWhitespace(At(t, pos + 1))

\* the test of parseBlock for an unordered list: a marker, white space
UnorderedMarkerAt(t, p) ==
    /\ At(t, p) \in {"-", "*", "+"}
    /\ p + 1 < Len(t) /\ isWhitespace(At(t, p + 1))

\* parseBlock with the cursor at p, the empty lines skipped
BlockAt(t, p) ==
    IF p >= Len(t) THEN Block(<<>>, p, <<>>)
    ELSE IF At(t, p) = "#" THEN parseHeading(t, p)
    ELSE IF isHorizontalRule(t, p) THEN parseHorizontalRule(t, p)
    ELSE IF At(t, p) = ">" THEN parseBlockquote(t, p)
    ELSE IF Substring(t, p, p + 3) = Fence THEN parseCodeBlock(t, p)
    ELSE IF UnorderedMarkerAt(t, p) THEN parseList(t, p, FALSE)
    ELSE IF OrderedMarkerAt(t, p) THEN parseList(t, p, TRUE)
    ELSE parseParagraph(t, p)

\* parseBlock called with the cursor at p
parseBlock(t, p) == BlockAt(t, skipEmptyLines(t, p))

\* ------------------------------------------------------------------------
\* Rendered strings
\* ------------------------------------------------------------------------

\* the characters of a template literal of the source
Template(chars) ==
    [i \in 1 .. Len(chars) |-> [c |-> chars[i], src |-> "template"]]

\* characters copied from the user's text
User(chars) == [i \in 1 .. Len(chars) |-> [c |-> chars[i], src |-> "user"]]

\* characters escapeHTML writes in place of one it replaces
Escape(chars) == [i \in 1 .. Len(chars) |-> [c |-> chars[i], src |-> "escape"]]

\* the string a rendered string is, as the browser receives it
Chars(r) == [i \in 1 .. Len(r) |-> r[i].c]

\* String.prototype.replace(/c/g, by) for a single character c
RECURSIVE ReplaceAll(_, _, _)
ReplaceAll(r, c, by) ==
    IF r = <<>> THEN <<>>
    ELSE (IF Head(r).c = c THEN by ELSE <<Head(r)>>)
         \o ReplaceAll(Tail(r), c, by)

\* &amp;
AmpEntity ==
    <<"&", "a", "m", "p", ";">>

\* &lt;
LtEntity ==
    <<"&", "l", "t", ";">>

\* &gt;
GtEntity ==
    <<"&", "g", "t", ";">>

\* &quot;
QuotEntity ==
    <<"&", "q", "u", "o", "t", ";">>

\* &#039;
AposEntity ==
    <<"&", "#", "0", "3", "9", ";">>

\* MarkdownRenderer.escapeHTML: five replacements one after the other, the
\* ampersand first
escapeHTML(t) ==
    ReplaceAll(
        ReplaceAll(
            ReplaceAll(
                ReplaceAll(
                    ReplaceAll(User(t), "&", Escape(AmpEntity)),
                    "<", Escape(LtEntity)),
                ">", Escape(GtEntity)),
            "\"", Escape(QuotEntity)),
        "'", Escape(AposEntity))

\* ------------------------------------------------------------------------
\* MarkdownRenderer.generateHeadingId
\* ------------------------------------------------------------------------

UpperCase ==
    <<"A", "B", "C", "D", "E", "F", "G", "H", "I", "J", "K", "L", "M",
      "N", "O", "P", "Q", "R", "S", "T", "U", "V", "W", "X", "Y", "Z">>

LowerCase ==
    <<"a", "b", "c", "d", "e", "f", "g", "h", "i", "j", "k", "l", "m",
      "n", "o", "p", "q", "r", "s", "t", "u", "v", "w", "x", "y", "z">>

\* String.prototype.toLowerCase, one character
ToLowerChar(c) ==
    IF \E i \in 1 .. 26 : UpperCase[i] = c
    THEN LowerCase[CHOOSE i \in 1 .. 26 : UpperCase[i] = c]
    ELSE c

toLowerCase(t) == [i \in 1 .. Len(t) |-> ToLowerChar(t[i])]

\* the regular expression class \w
WordChars ==
    {UpperCase[i] : i \in 1 .. 26} \cup {LowerCase[i] : i \in 1 .. 26}
    \cup Digits \cup {"_"}

\* replace(/[^\w\s-]/g, '')
RemoveSpecial(t) ==
    SelectSeq(t, LAMBDA c : c \in WordChars \cup JsWhiteSpace \cup {"-"})

\* replace(/\s+/g, '-'): each maximal run of white space becomes one hyphen
RECURSIVE SpacesToHyphens(_)
SpacesToHyphens(t) ==
    IF t = <<>> THEN <<>>
    ELSE IF Head(t) \in JsWhiteSpace
         THEN <<"-">> \o SpacesToHyphens(TrimStart(t))
         ELSE <<Head(t)>> \o SpacesToHyphens(Tail(t))

RECURSIVE StripHyphensStart(_)
StripHyphensStart(t) ==
    IF t # <<>> /\ Head(t) = "-" THEN StripHyphensStart(Tail(t)) ELSE t

RECURSIVE StripHyphensEnd(_)
StripHyphensEnd(t) ==
    IF t # <<>> /\ t[Len(t)] = "-"
    THEN StripHyphensEnd(SubSeq(t, 1, Len(t) - 1))
    ELSE t

\* replace(/^-+|-+$/g, '')
StripHyphens(t) == StripHyphensEnd(StripHyphensStart(t))

generateHeadingId(t) ==
    StripHyphens(SpacesToHyphens(RemoveSpecial(toLowerCase(t))))

\* ------------------------------------------------------------------------
\* MarkdownRenderer: renderInlineContent, renderNode, render, generateTOC
\* ------------------------------------------------------------------------

\* String.prototype.startsWith
StartsWith(t, prefix) == Substring(t, 0, Len(prefix)) = prefix

\* http://
HttpPrefix ==
    <<"h", "t", "t", "p", ":", "/", "/">>

\* https://
HttpsPrefix ==
    <<"h", "t", "t", "p", "s", ":", "/", "/">>

\* //
SlashSlash ==
    <<"/", "/">>

\* isExternalUrl without its third test, the one for two slashes
isExternalUrlWithScheme(url) ==
    \/ StartsWith(url, HttpPrefix)
    \/ StartsWith(url, HttpsPrefix)

isExternalUrl(url) ==
    \/ StartsWith(url, HttpPrefix)
    \/ StartsWith(url, HttpsPrefix)
    \/ StartsWith(url, SlashSlash)

\* <strong>
StrongOpen ==
    <<"<", "s", "t", "r", "o", "n", "g", ">">>

\* </strong>
StrongClose ==
    <<"<", "/", "s", "t", "r", "o", "n", "g", ">">>

\* <em>
EmOpen ==
    <<"<", "e", "m", ">">>

\* </em>
EmClose ==
    <<"<", "/", "e", "m", ">">>

\* <code>
CodeSpanOpen ==
    <<"<", "c", "o", "d", "e", ">">>

\* </code>
CodeSpanClose ==
    <<"<", "/", "c", "o", "d", "e", ">">>

\* <a href="
AnchorOpen ==
    <<"<", "a", " ", "h", "r", "e", "f", "=", "\"">>

\*  target="_blank" rel="noopener noreferrer"
AnchorTarget ==
    <<" ", "t", "a", "r", "g", "e", "t", "=", "\"", "_", "b", "l", "a", "n",
      "k", "\"", " ", "r", "e", "l", "=", "\"", "n", "o", "o", "p", "e",
      "n", "e", "r", " ", "n", "o", "r", "e", "f", "e", "r", "r", "e", "r",
      "\"">>

\* </a>
AnchorClose ==
    <<"<", "/", "a", ">">>

\* <img src="
ImgOpen ==
    <<"<", "i", "m", "g", " ", "s", "r", "c", "=", "\"">>

\* " alt="
ImgAlt ==
    <<"\"", " ", "a", "l", "t", "=", "\"">>

\* " class="expandable-image">
ImgClose ==
    <<"\"", " ", "c", "l", "a", "s", "s", "=", "\"", "e", "x", "p", "a",
      "n", "d", "a", "b", "l", "e", "-", "i", "m", "a", "g", "e", "\"",
      ">">>

\* the markup renderInlineContent adds for one inline node
RenderInline(node) ==
    IF node.type = "text" THEN escapeHTML(node.content)
    ELSE IF node.type = "bold"
         THEN Template(StrongOpen) \o escapeHTML(node.content)
              \o Template(StrongClose)
    ELSE IF node.type = "italic"
         THEN Template(EmOpen) \o escapeHTML(node.content) \o Template(EmClose)
    ELSE IF node.type = "inline_code"
         THEN Template(CodeSpanOpen) \o escapeHTML(node.content)
              \o Template(CodeSpanClose)
    ELSE IF node.type = "link"
         THEN Template(AnchorOpen) \o escapeHTML(node.url)
              \o Template(<<"\"">>)
              \o (IF isExternalUrl(node.url)
                  THEN Template(AnchorTarget)
                  ELSE <<>>)
              \o Template(<<">">>) \o escapeHTML(node.content)
              \o Template(AnchorClose)
    ELSE IF node.type = "image"
         THEN Template(ImgOpen) \o escapeHTML(node.url) \o Template(ImgAlt)
              \o escapeHTML(node.alt) \o Template(ImgClose)
    ELSE <<>>

RECURSIVE renderInlineContent(_)
renderInlineContent(nodes) ==
    IF nodes = <<>> THEN <<>>
    ELSE RenderInline(Head(nodes)) \o renderInlineContent(Tail(nodes))

\* <div class="code-block-container">\n          <pre><code class="language-
CodeBlockOpen ==
    <<"<", "d", "i", "v", " ", "c", "l", "a", "s", "s", "=", "\"", "c", "o",
      "d", "e", "-", "b", "l", "o", "c", "k", "-", "c", "o", "n", "t", "a",
      "i", "n", "e", "r", "\"", ">", NL, " ", " ", " ", " ", " ", " ", " ",
      " ", " ", " ", "<", "p", "r", "e", ">", "<", "c", "o", "d", "e", " ",
      "c", "l", "a", "s", "s", "=", "\"", "l", "a", "n", "g", "u", "a", "g",
      "e", "-">>

\* </code></pre>\n          <button class="copy-button" aria-label="Copy code">Copy</button>\n        </div>
CodeBlockClose ==
    <<"<", "/", "c", "o", "d", "e", ">", "<", "/", "p", "r", "e", ">", NL,
      " ", " ", " ", " ", " ", " ", " ", " ", " ", " ", "<", "b", "u", "t",
      "t", "o", "n", " ", "c", "l", "a", "s", "s", "=", "\"", "c", "o", "p",
      "y", "-", "b", "u", "t", "t", "o", "n", "\"", " ", "a", "r", "i", "a",
      "-", "l", "a", "b", "e", "l", "=", "\"", "C", "o", "p", "y", " ", "c",
      "o", "d", "e", "\"", ">", "C", "o", "p", "y", "<", "/", "b", "u", "t",
      "t", "o", "n", ">", NL, " ", " ", " ", " ", " ", " ", " ", " ", "<",
      "/", "d", "i", "v", ">">>

\* a number substituted into a template: one digit for the numbers met here
Number(n) == <<[c |-> ToString(n), src |-> "number"]>>

\* <tag>
OpenTag(name) == Template(<<"<">> \o name \o <<">">>)

\* </tag>
CloseTag(name) == Template(<<"<", "/">> \o name \o <<">">>)

RenderHeading(node) ==
    Template(<<"<", "h">>) \o Number(node.level)
    \o Template(<<" ", "i", "d", "=", "\"">>)
    \o User(generateHeadingId(node.content))
    \o Template(<<"\"", ">">>) \o renderInlineContent(node.children)
    \o Template(<<"<", "/", "h">>) \o Number(node.level) \o Template(<<">">>)

\* the code case of renderNode rendering the content as inline markdown, the
\* way the paragraph case renders its text
RenderCodeInline(node) ==
    Template(CodeBlockOpen) \o User(node.language)
    \o Template(<<"\"", ">">>)
    \o renderInlineContent(parseInline(node.content).nodes)
    \o Template(CodeBlockClose)

\* the language is substituted as it is, the content through escapeHTML
RenderCode(node) ==
    Template(CodeBlockOpen) \o User(node.language)
    \o Template(<<"\"", ">">>) \o escapeHTML(node.content)
    \o Template(CodeBlockClose)

RenderListItem(node) ==
    OpenTag(<<"l", "i">>) \o renderInlineContent(node.children)
    \o CloseTag(<<"l", "i">>)

RECURSIVE RenderListItems(_)
RenderListItems(items) ==
    IF items = <<>> THEN <<>>
    ELSE RenderListItem(Head(items)) \o RenderListItems(Tail(items))

\* const listTag = node.ordered ? 'ol' : 'ul'
listTag(node) == IF node.ordered THEN <<"o", "l">> ELSE <<"u", "l">>

RenderList(node) ==
    OpenTag(listTag(node)) \o RenderListItems(node.children)
    \o CloseTag(listTag(node))

renderNode(node) ==
    IF node.type = "heading" THEN RenderHeading(node)
    ELSE IF node.type = "paragraph"
         THEN OpenTag(<<"p">>) \o renderInlineContent(node.children)
              \o CloseTag(<<"p">>)
    ELSE IF node.type = "blockquote"
         THEN OpenTag(<<"b", "l", "o", "c", "k", "q", "u", "o", "t", "e">>)
              \o renderInlineContent(node.children)
              \o CloseTag(<<"b", "l", "o", "c", "k", "q", "u", "o", "t", "e">>)
    ELSE IF node.type = "code" THEN RenderCode(node)
    ELSE IF node.type = "list" THEN RenderList(node)
    ELSE IF node.type = "list_item" THEN RenderListItem(node)
    ELSE IF node.type = "hr" THEN Template(<<"<", "h", "r", ">">>)
    ELSE <<>>

RECURSIVE render(_)
render(nodes) ==
    IF nodes = <<>> THEN <<>>
    ELSE renderNode(Head(nodes)) \o render(Tail(nodes))

\* <ul class="toc-list">
TocOpen ==
    <<"<", "u", "l", " ", "c", "l", "a", "s", "s", "=", "\"", "t", "o", "c",
      "-", "l", "i", "s", "t", "\"", ">">>

\* <li class="toc-item toc-level-
TocItemOpen ==
    <<"<", "l", "i", " ", "c", "l", "a", "s", "s", "=", "\"", "t", "o", "c",
      "-", "i", "t", "e", "m", " ", "t", "o", "c", "-", "l", "e", "v", "e",
      "l", "-">>

\* ">\n        <a href="#
TocItemLink ==
    <<"\"", ">", NL, " ", " ", " ", " ", " ", " ", " ", " ", "<", "a", " ",
      "h", "r", "e", "f", "=", "\"", "#">>

\* </a>\n      </li>
TocItemClose ==
    <<"<", "/", "a", ">", NL, " ", " ", " ", " ", " ", " ", "<", "/", "l",
      "i", ">">>

TocItem(heading) ==
    Template(TocItemOpen) \o Number(heading.level) \o Template(TocItemLink)
    \o User(generateHeadingId(heading.content)) \o Template(<<"\"", ">">>)
    \o renderInlineContent(heading.children) \o Template(TocItemClose)

\* the loop of generateTOC running from the last heading to the first
RECURSIVE TocItemsLastFirst(_)
TocItemsLastFirst(hs) ==
    IF hs = <<>> THEN <<>>
    ELSE TocItemsLastFirst(Tail(hs)) \o TocItem(Head(hs))

RECURSIVE TocItems(_)
TocItems(hs) ==
    IF hs = <<>> THEN <<>> ELSE TocItem(Head(hs)) \o TocItems(Tail(hs))

generateTOC(hs) ==
    IF Len(hs) = 0 THEN <<>>
    ELSE Template(TocOpen) \o TocItems(hs) \o CloseTag(<<"u", "l">>)

\* ------------------------------------------------------------------------
\* processCollapsibleSections
\* ------------------------------------------------------------------------

\* <!-- collapse -->
CollapseStart ==
    <<"<", "!", "-", "-", " ", "c", "o", "l", "l", "a", "p", "s", "e", " ",
      "-", "-", ">">>

\* <!-- /collapse -->
CollapseEnd ==
    <<"<", "!", "-", "-", " ", "/", "c", "o", "l", "l", "a", "p", "s", "e",
      " ", "-", "-", ">">>

\* <details class="collapsible"><summary>Show/Hide Content</summary>
DetailsOpen ==
    <<"<", "d", "e", "t", "a", "i", "l", "s", " ", "c", "l", "a", "s", "s",
      "=", "\"", "c", "o", "l", "l", "a", "p", "s", "i", "b", "l", "e",
      "\"", ">", "<", "s", "u", "m", "m", "a", "r", "y", ">", "S", "h", "o",
      "w", "/", "H", "i", "d", "e", " ", "C", "o", "n", "t", "e", "n", "t",
      "<", "/", "s", "u", "m", "m", "a", "r", "y", ">">>

\* </details>
DetailsClose ==
    <<"<", "/", "d", "e", "t", "a", "i", "l", "s", ">">>

\* the characters of r from index i on (1-based) start with pat
MatchesAt(r, i, pat) ==
    /\ i + Len(pat) - 1 <= Len(r)
    /\ \A k \in 1 .. Len(pat) : r[i + k - 1].c = pat[k]

\* the first index from i on where pat occurs in r, 0 when there is none
FirstMatch(r, i, pat) ==
    Let({j \in i .. Len(r) : MatchesAt(r, j, pat)}, LAMBDA matches :
        IF matches = {} THEN 0
        ELSE CHOOSE j \in matches : \A k \in matches : j <= k)

\* replace(/<!-- collapse -->([\s\S]*?)<!-- \/collapse -->/g, ...) from index
\* i on: the leftmost start marker that an end marker follows, up to the
\* nearest such end marker, then on from behind it
RECURSIVE CollapseFrom(_, _)
CollapseFrom(r, i) ==
    Let(FirstMatch(r, i, CollapseStart), LAMBDA start :
    Let(IF start = 0
        THEN 0
        ELSE FirstMatch(r, start + Len(CollapseStart), CollapseEnd),
        LAMBDA end :
        IF start = 0 \/ end = 0
        THEN SubSeq(r, i, Len(r))
        ELSE SubSeq(r, i, start - 1)
             \o Template(DetailsOpen)
             \o SubSeq(r, start + Len(CollapseStart), end - 1)
             \o Template(DetailsClose)
             \o CollapseFrom(r, end + Len(CollapseEnd))))

processCollapsibleSections(r) == CollapseFrom(r, 1)

\* ------------------------------------------------------------------------
\* MarkdownRenderer: highlightCode, applySyntaxHighlighting
\* ------------------------------------------------------------------------

\* characters highlightCode inserts around a match of the rule with the
\* class name
Span(chars, className) ==
    [i \in 1 .. Len(chars) |->
        [c |-> chars[i], src |-> "span", rule |-> className]]

\* <span class="token CLASS">
SpanOpen(className) ==
    Span(<<"<", "s", "p", "a", "n", " ", "c", "l", "a", "s", "s", "=", "\"",
           "t", "o", "k", "e", "n", " ">> \o className \o <<"\"", ">">>,
         className)

\* </span>
SpanClose(className) ==
    Span(<<"<", "/", "s", "p", "a", "n", ">">>, className)

\* the characters the dot of a regular expression does not match
LineTerminators == {"\n", "\r"}

\* the last index of the run of characters of cs that r holds from index i
\* on: i - 1 when the run is empty
RunEnd(r, i, cs) ==
    Let(Least({j \in i .. Len(r) : r[j].c \notin cs}), LAMBDA j :
        IF j = 0 THEN Len(r) ELSE j - 1)

\* .* from index k on: the last index before the next line terminator
LineEnd(r, k) ==
    Let(Least({j \in k .. Len(r) : r[j].c \in LineTerminators}), LAMBDA j :
        IF j = 0 THEN Len(r) ELSE j - 1)

\* (.*?) from index k on, followed by one of the closing strings: the last
\* index of the nearest closing string on the line, 0 when there is none
LazyEnd(r, k, closes) ==
    Let(Least({j \in k .. LineEnd(r, k) :
                  \E close \in closes : MatchesAt(r, j, close)}),
        LAMBDA j :
        IF j = 0 THEN 0
        ELSE j + Len(CHOOSE close \in closes : MatchesAt(r, j, close)) - 1)

\* ["'`]
QuoteChars == {"\"", "'", Backtick}

JsKeywords ==
    {<<"f", "u", "n", "c", "t", "i", "o", "n">>,
     <<"r", "e", "t", "u", "r", "n">>,
     <<"i", "f">>,
     <<"f", "o", "r">>,
     <<"w", "h", "i", "l", "e">>,
     <<"e", "l", "s", "e">>,
     <<"v", "a", "r">>,
     <<"l", "e", "t">>,
     <<"c", "o", "n", "s", "t">>,
     <<"c", "l", "a", "s", "s">>,
     <<"i", "m", "p", "o", "r", "t">>,
     <<"e", "x", "p", "o", "r", "t">>,
     <<"f", "r", "o", "m">>,
     <<"d", "e", "f", "a", "u", "l", "t">>,
     <<"n", "e", "w">>}

TsKeywords ==
    {<<"f", "u", "n", "c", "t", "i", "o", "n">>,
     <<"r", "e", "t", "u", "r", "n">>,
     <<"i", "f">>,
     <<"f", "o", "r">>,
     <<"w", "h", "i", "l", "e">>,
     <<"e", "l", "s", "e">>,
     <<"v", "a", "r">>,
     <<"l", "e", "t">>,
     <<"c", "o", "n", "s", "t">>,
     <<"c", "l", "a", "s", "s">>,
     <<"i", "n", "t", "e", "r", "f", "a", "c", "e">>,
     <<"t", "y", "p", "e">>,
     <<"i", "m", "p", "o", "r", "t">>,
     <<"e", "x", "p", "o", "r", "t">>,
     <<"f", "r", "o", "m">>,
     <<"d", "e", "f", "a", "u", "l", "t">>,
     <<"n", "e", "w">>}

Booleans ==
    {<<"t", "r", "u", "e">>,
     <<"f", "a", "l", "s", "e">>,
     <<"n", "u", "l", "l">>,
     <<"u", "n", "d", "e", "f", "i", "n", "e", "d">>,
     <<"N", "a", "N">>}

PyKeywords ==
    {<<"d", "e", "f">>,
     <<"c", "l", "a", "s", "s">>,
     <<"i", "f">>,
     <<"e", "l", "i", "f">>,
     <<"e", "l", "s", "e">>,
     <<"f", "o", "r">>,
     <<"w", "h", "i", "l", "e">>,
     <<"i", "m", "p", "o", "r", "t">>,
     <<"f", "r", "o", "m">>,
     <<"r", "e", "t", "u", "r", "n">>,
     <<"T", "r", "u", "e">>,
     <<"F", "a", "l", "s", "e">>,
     <<"N", "o", "n", "e">>}

\* /(\/\/.*)/g
SlashComment ==
    [kind |-> "line", open |-> <<"/", "/">>, className |-> <<"c", "o", "m", "m", "e", "n", "t">>]

\* /(#.*)/g
HashComment ==
    [kind |-> "line", open |-> <<"#">>, className |-> <<"c", "o", "m", "m", "e", "n", "t">>]

\* /(["'`])(.*?)\1/g
StringRule ==
    [kind |-> "quoted", className |-> <<"s", "t", "r", "i", "n", "g">>]

\* /\b(word|word|...)\b/g
WordRule(words, className) ==
    [kind |-> "words", words |-> words, className |-> className]

\* /\b(\d+)\b/g
NumberRule ==
    [kind |-> "digits", className |-> <<"n", "u", "m", "b", "e", "r">>]

\* /(&lt;)(\/?)(.*?)(&gt;)/g
TagRule ==
    [kind |-> "fromto", open |-> LtEntity, closes |-> {GtEntity},
     className |-> <<"t", "a", "g">>]

\* /(\w+)=["'](.*?)["']/g
AttributeRule ==
    [kind |-> "attribute", className |-> <<"a", "t", "t", "r", "i", "b", "u", "t", "e">>]

\* /([\.\#][\w\-]+)/g
SelectorRule ==
    [kind |-> "selector", className |-> <<"s", "e", "l", "e", "c", "t", "o", "r">>]

\* /(\{)(.*?)(\})/g
BlockRule ==
    [kind |-> "fromto", open |-> <<"{">>, closes |-> {<<"}">>},
     className |-> <<"b", "l", "o", "c", "k">>]

\* /(\w+)(\s*:\s*)(.*?)(;)/g
PropertyRule ==
    [kind |-> "property", className |-> <<"p", "r", "o", "p", "e", "r", "t", "y">>]

\* the table patterns of highlightCode
JavascriptPatterns ==
    <<SlashComment, StringRule, WordRule(JsKeywords, <<"k", "e", "y", "w", "o", "r", "d">>),
      WordRule(Booleans, <<"b", "o", "o", "l", "e", "a", "n">>), NumberRule>>

TypescriptPatterns ==
    <<SlashComment, StringRule, WordRule(TsKeywords, <<"k", "e", "y", "w", "o", "r", "d">>),
      WordRule(Booleans, <<"b", "o", "o", "l", "e", "a", "n">>), NumberRule>>

HtmlPatterns ==
    <<TagRule, AttributeRule>>

CssPatterns ==
    <<SelectorRule, BlockRule, PropertyRule>>

PythonPatterns ==
    <<HashComment, StringRule, WordRule(PyKeywords, <<"k", "e", "y", "w", "o", "r", "d">>),
      NumberRule>>

\* patterns[language] || patterns['javascript']
langPatterns(language) ==
    IF language = <<"t", "y", "p", "e", "s", "c", "r", "i", "p", "t">>
    THEN TypescriptPatterns
    ELSE IF language = <<"h", "t", "m", "l">> THEN HtmlPatterns
    ELSE IF language = <<"c", "s", "s">> THEN CssPatterns
    ELSE IF language = <<"p", "y", "t", "h", "o", "n">> THEN PythonPatterns
    ELSE JavascriptPatterns

\* the run of word characters that starts at index i of r, between two word
\* boundaries: its last index, 0 when index i does not start such a run
WordEnd(r, i) ==
    IF r[i].c \in WordChars /\ (i = 1 \/ r[i - 1].c \notin WordChars)
    THEN RunEnd(r, i, WordChars)
    ELSE 0

\* the regular expression of the rule tried at index i of r: the last index
\* of its match, 0 when it does not match there
MatchEnd(rule, r, i) ==
    IF rule.kind = "line"
    THEN IF MatchesAt(r, i, rule.open)
         THEN LineEnd(r, i + Len(rule.open))
         ELSE 0
    ELSE IF rule.kind = "quoted"
    THEN IF r[i].c \in QuoteChars
         THEN LazyEnd(r, i + 1, {<<r[i].c>>})
         ELSE 0
    ELSE IF rule.kind = "fromto"
    THEN IF MatchesAt(r, i, rule.open)
         THEN LazyEnd(r, i + Len(rule.open), rule.closes)
         ELSE 0
    ELSE IF rule.kind = "words"
    THEN Let(WordEnd(r, i), LAMBDA end :
             IF end # 0 /\ Chars(SubSeq(r, i, end)) \in rule.words
             THEN end
             ELSE 0)
    ELSE IF rule.kind = "digits"
    THEN Let(WordEnd(r, i), LAMBDA end :
             IF end # 0 /\ \A k \in i .. end : r[k].c \in Digits
             THEN end
             ELSE 0)
    ELSE IF rule.kind = "attribute"
    THEN IF r[i].c \in WordChars
         THEN Let(RunEnd(r, i, WordChars), LAMBDA end :
                  IF /\ end + 2 <= Len(r)
                     /\ r[end + 1].c = "="
                     /\ r[end + 2].c \in {"\"", "'"}
                  THEN LazyEnd(r, end + 3, {<<"\"">>, <<"'">>})
                  ELSE 0)
         ELSE 0
    ELSE IF rule.kind = "selector"
    THEN IF /\ r[i].c \in {".", "#"}
            /\ i < Len(r)
            /\ r[i + 1].c \in WordChars \cup {"-"}
         THEN RunEnd(r, i + 1, WordChars \cup {"-"})
         ELSE 0
    ELSE IF r[i].c \in WordChars
         THEN Let(RunEnd(r, RunEnd(r, i, WordChars) + 1, JsWhiteSpace),
                  LAMBDA space :
                  IF space < Len(r) /\ r[space + 1].c = ":"
                  THEN LazyEnd(r, RunEnd(r, space + 2, JsWhiteSpace) + 1,
                               {<<";">>})
                  ELSE 0)
         ELSE 0

\* highlighted.replace(pattern.regex, (match) => <span ...>match</span>) from
\* index i on: each match, the leftmost first, is wrapped in a span and the
\* search goes on behind it
RECURSIVE ReplaceMatches(_, _, _)
ReplaceMatches(r, i, rule) ==
    Let(Least({j \in i .. Len(r) : MatchEnd(rule, r, j) # 0}), LAMBDA start :
        IF start = 0 THEN SubSeq(r, i, Len(r))
        ELSE Let(MatchEnd(rule, r, start), LAMBDA end :
                 SubSeq(r, i, start - 1) \o SpanOpen(rule.className)
                 \o SubSeq(r, start, end) \o SpanClose(rule.className)
                 \o ReplaceMatches(r, end + 1, rule)))

\* for (const pattern of langPatterns)
RECURSIVE ApplyPatterns(_, _)
ApplyPatterns(r, rules) ==
    IF rules = <<>> THEN r
    ELSE ApplyPatterns(ReplaceMatches(r, 1, Head(rules)), Tail(rules))

\* the innerHTML highlightCode gives the element whose textContent is code
highlightCode(code, language) ==
    ApplyPatterns(escapeHTML(code), langPatterns(language))

\* codeBlock.className.replace('language-', '') of the element rendered for
\* a code node: the class attribute ends at the first double quote of the
\* language
ClassLanguage(language) ==
    Let(FindChar(language, 0, "\""), LAMBDA quote : Substring(language, 0, quote))

\* the code nodes among the nodes, in their order: one pre code element each
CodeNodes(nodes) == SelectSeq(nodes, LAMBDA node : node.type = "code")

\* the pass of applySyntaxHighlighting over one element: its innerHTML
\* behind the pass, the rendered escapeHTML(content) when its language is
\* empty
HighlightElement(node) ==
    Let(ClassLanguage(node.language), LAMBDA language :
        IF language # <<>>
        THEN highlightCode(node.content, language)
        ELSE escapeHTML(node.content))

applySyntaxHighlighting(nodes) ==
    Let(CodeNodes(nodes), LAMBDA elements :
        [i \in DOMAIN elements |-> HighlightElement(elements[i])])

\* ------------------------------------------------------------------------
\* The texts the editor holds when updatePreview runs
\* ------------------------------------------------------------------------

\* the sequences of at most n members of V
SeqsUpTo(V, n) == UNION {[1 .. k -> V] : k \in 0 .. n}

RECURSIVE Flatten(_)
Flatten(ss) == IF ss = <<>> THEN <<>> ELSE Head(ss) \o Flatten(Tail(ss))

\* the texts made of at most n pieces of V
PieceTexts(V, n) == {Flatten(ss) : ss \in SeqsUpTo(V, n)}

\* the texts made of at most n lines of V, a newline between two lines
LineTexts(V, n) == {Join(ss, <<NL>>) : ss \in SeqsUpTo(V, n)}

MaxInlinePieces == 3

MaxSpecialChars == 1

MaxListLines == 3

MaxCodeLines == 3

MaxHashes == 7

MaxMarkerLines == 4

\* pieces of inline markup, well formed and not
InlinePieces ==
    {<<"a">>,
     <<"<">>,
     <<"*", "*">>,
     <<"*">>,
     <<Backtick>>,
     <<"[", "a", "]", "(">>,
     <<"!", "[", "a", "]", "(">>,
     <<")">>,
     <<"[">>}

InlineTexts == PieceTexts(InlinePieces, MaxInlinePieces)

\* the characters escapeHTML replaces
SpecialChars == {"&", "<", ">", "\"", "'"}

\* the places user text is rendered from: what stands before and behind it
Contexts ==
    {<<<<>>,
       <<>>>>,
     <<<<"#", " ">>,
       <<>>>>,
     <<<<"-", " ">>,
       <<>>>>,
     <<<<"1", ".", " ">>,
       <<>>>>,
     <<<<">", " ">>,
       <<>>>>,
     <<<<"*", "*">>,
       <<"*", "*">>>>,
     <<<<"*">>,
       <<"*">>>>,
     <<<<Backtick>>,
       <<Backtick>>>>,
     <<<<"[">>,
       <<"]", "(", "a", ")">>>>,
     <<<<"[", "a", "]", "(">>,
       <<")">>>>,
     <<<<"!", "[">>,
       <<"]", "(", "a", ")">>>>,
     <<<<"!", "[", "a", "]", "(">>,
       <<")">>>>,
     <<<<Backtick, Backtick, Backtick, NL>>,
       <<NL, Backtick, Backtick, Backtick>>>>,
     <<<<Backtick, Backtick, Backtick>>,
       <<>>>>}

SpecialTexts ==
    {ctx[1] \o sp \o ctx[2] :
        ctx \in Contexts,
        sp \in SeqsUpTo(SpecialChars, MaxSpecialChars) \ {<<>>}}

\* lines of lists and around them
ListLines ==
    {<<"-", " ", "a">>,
     <<"-", " ", "b">>,
     <<"1", ".", " ", "c">>,
     <<"2", ".", " ", "d">>,
     <<>>,
     <<"a">>,
     <<" ", " ", "-", " ", "e">>}

ListTexts == LineTexts(ListLines, MaxListLines)

\* lines of fenced code and around it
CodeLines ==
    {<<Backtick, Backtick, Backtick>>,
     <<Backtick, Backtick, Backtick, "j", "s">>,
     <<" ", " ", "a", " ">>,
     <<>>,
     <<"*", "*", "b", "*", "*">>,
     <<"a">>,
     <<"[", "x", "]", "(", "y", ")">>}

CodeTexts == LineTexts(CodeLines, MaxCodeLines)

\* n marker characters
Hashes(n) == [i \in 1 .. n |-> "#"]

\*  Title
SpaceTitle ==
    <<" ", "T", "i", "t", "l", "e">>

\* what follows the heading line
HeadingTails ==
    {<<>>,
     <<NL>>,
     <<NL, NL, "a">>}

HeadingTexts ==
    {Hashes(n) \o SpaceTitle \o tail : n \in 1 .. MaxHashes, tail \in HeadingTails}

\* lines with the markers of collapsible sections
MarkerLines == {CollapseStart, CollapseEnd, <<"a">>, <<>>}

MarkerTexts == LineTexts(MarkerLines, MaxMarkerLines)

\* language tags behind an opening fence: js, and "><b>
Languages ==
    {<<"j", "s">>,
     <<"\"", ">", "<", "b", ">">>}

\* what follows the opening fence line
FenceTails ==
    {<<>>,
     <<NL, "a", NL, Backtick, Backtick, Backtick>>}

LanguageTexts ==
    {Fence \o language \o tail : language \in Languages, tail \in FenceTails}

MaxHeadingLines == 3

\* lines of headings of several levels and titles, and lines around them
HeadingLines ==
    {<<"#", " ", "T">>,
     <<"#", "#", " ", "U", " ", "v">>,
     <<"#", "#", "#", " ", "T">>,
     <<"a">>,
     <<>>}

HeadingLineTexts == LineTexts(HeadingLines, MaxHeadingLines)

MaxCodePieces == 2

\* pieces of code that the rules of highlightCode match
CodePieces ==
    {<<"/", "/">>,
     <<"'">>,
     <<"i", "f">>,
     <<"1">>,
     <<"<", "b", ">">>,
     <<"#", "b">>,
     <<"{", "a", "}">>,
     <<"a", ":", "b", ";">>,
     <<NL>>}

\* the languages of the table of highlightCode
HighlightLanguages ==
    {<<"j", "a", "v", "a", "s", "c", "r", "i", "p", "t">>,
     <<"t", "y", "p", "e", "s", "c", "r", "i", "p", "t">>,
     <<"h", "t", "m", "l">>,
     <<"c", "s", "s">>,
     <<"p", "y", "t", "h", "o", "n">>}

\* one fenced block of code in one of the languages
HighlightTexts ==
    {Fence \o language \o <<NL>> \o code \o <<NL>> \o Fence :
        language \in HighlightLanguages,
        code \in PieceTexts(CodePieces, MaxCodePieces)}

MaxSpans == 3

\* a run of plain text, a bold span and an italic span
Spans ==
    {[type |-> "text", content |-> <<"a">>],
     [type |-> "bold", content |-> <<"x">>],
     [type |-> "italic", content |-> <<"y">>]}

\* the sequences of at most MaxSpans spans in which no run of plain text
\* follows another, and no italic span another, whose closing and opening
\* delimiters would read as one delimiter of a bold span
SpanSeqs ==
    {spans \in SeqsUpTo(Spans, MaxSpans) :
        \A i \in 1 .. (Len(spans) - 1) :
            spans[i].type \in {"text", "italic"} =>
                spans[i + 1].type # spans[i].type}

\* the markdown of a span: its content between its delimiters
SpanSource(span) ==
    IF span.type = "bold"
    THEN <<"*", "*">> \o span.content \o <<"*", "*">>
    ELSE IF span.type = "italic" THEN <<"*">> \o span.content \o <<"*">>
    ELSE span.content

\* the markdown of a sequence of spans
SpansSource(spans) == Flatten([i \in DOMAIN spans |-> SpanSource(spans[i])])

\* **bold** and *italic*
BoldAndItalic ==
    <<"*", "*", "b", "o", "l", "d", "*", "*", " ", "a", "n", "d", " ", "*",
      "i", "t", "a", "l", "i", "c", "*">>

\* paragraphs of properly paired bold and italic spans
SpanTexts == {SpansSource(spans) : spans \in SpanSeqs} \cup {BoldAndItalic}

\* addresses of links: absolute, protocol-relative, fragment, relative
LinkUrls ==
    {<<"h", "t", "t", "p", ":", "/", "/", "x">>,
     <<"h", "t", "t", "p", "s", ":", "/", "/", "x">>,
     <<"/", "/", "x">>,
     <<"#", "i", "d">>,
     <<"x", "/", "y">>,
     <<"/", "x">>,
     <<"h", "t", "t", "p", ":", "/", "x">>,
     <<"f", "t", "p", ":", "/", "/", "x">>,
     <<"x", "h", "t", "t", "p", ":", "/", "/", "x">>}

\* [a](url)
LinkTo(url) == <<"[", "a", "]", "(">> \o url \o <<")">>

\* a paragraph that is one link, alone or behind a word
LinkTexts ==
    {before \o LinkTo(url) : before \in {<<>>, <<"b", " ">>}, url \in LinkUrls}

MaxSlugPieces == 3

\* pieces of the titles of headings: letters of both cases, a digit, white
\* space, a hyphen, an underscore and a punctuation mark
SlugPieces ==
    {<<"A">>,
     <<"b">>,
     <<"3">>,
     <<" ">>,
     <<"-">>,
     <<"_">>,
     <<"!">>}

\* a heading of level 1 with a title made of the pieces
SlugTexts ==
    {<<"#", " ">> \o title : title \in PieceTexts(SlugPieces, MaxSlugPieces)}

MaxRulePieces == 4

\* the characters of lines that are rules or nearly so
RulePieces ==
    {<<"-">>,
     <<"*">>,
     <<" ">>,
     <<"a">>}

\* rules of the third rule character, and rules whose characters white
\* space separates
SeparatedRules ==
    {<<"_", "_", "_">>,
     <<"_", "_", "a">>,
     <<"-", " ", "-", " ", "-">>,
     <<"*", " ", "*", " ", "*">>,
     <<"_", " ", "_", " ", "_">>}

\* the lines tried as rules: they begin with a character that is not white
\* space
RuleLines ==
    {line \in PieceTexts(RulePieces, MaxRulePieces) \cup SeparatedRules :
        line # <<>> /\ ~isWhitespace(line[1])}

\* what follows the line
RuleTails ==
    {<<>>,
     <<NL, "a">>}

RuleTexts == {line \o tail : line \in RuleLines, tail \in RuleTails}

\* second lines of a paragraph: none of them starts a block of another type
Continuations ==
    {<<"b">>,
     <<"*", "b", "*", " ", "c">>,
     <<"1", ".", "5", " ", "b">>,
     <<"-", "b">>,
     <<"+", "b">>}

\* lines that end a paragraph: a blank line, a line of white space, and the
\* first lines of a heading, a quote, two lists, a rule and a fence
Enders ==
    {<<>>,
     <<" ">>,
     <<"#", " ", "h">>,
     <<">", " ", "q">>,
     <<"-", " ", "i">>,
     <<"1", ".", " ", "i">>,
     <<"-", "-", "-">>,
     <<Backtick, Backtick, Backtick>>}

\* the line a, a continuation line and, in some, a line that ends the
\* paragraph and the line z
ParagraphTexts ==
    {<<"a", NL>> \o line : line \in Continuations}
    \cup {<<"a", NL>> \o line \o <<NL>> \o ender \o <<NL, "z">> :
              line \in Continuations, ender \in Enders}

MaxQuoteLines == 3

\* lines of a quote: the marker with one space, none and two behind it, and
\* the marker alone
QuoteLines ==
    {<<">", " ", "a">>,
     <<">", "b">>,
     <<">", " ", " ", "c">>,
     <<">">>}

\* what follows the quote: nothing, a line that does not start with the
\* marker, a blank line and such a line
QuoteTails ==
    {<<>>,
     <<NL, "z">>,
     <<NL, NL, "z">>}

\* the runs of one to MaxQuoteLines lines of a quote
QuoteRuns == SeqsUpTo(QuoteLines, MaxQuoteLines) \ {<<>>}

QuoteTexts ==
    {Join(lines, <<NL>>) \o tail : lines \in QuoteRuns, tail \in QuoteTails}

\* lines that start with three backticks and go on with other characters
FenceLikeLines ==
    {<<Backtick, Backtick, Backtick, "j", "s">>,
     <<Backtick, Backtick, Backtick, " ">>,
     <<Backtick, Backtick, Backtick, Backtick>>}

\* a fenced block with the lines a, a line of FenceLikeLines and b inside
FenceInside(line) ==
    Fence \o <<NL, "a", NL>> \o line \o <<NL, "b", NL>> \o Fence

FenceInsideTexts == {FenceInside(line) : line \in FenceLikeLines}

MaxTagLines == 2

\* lines that start with marker characters, with and without a space behind
\* them:  #tag  ##tag  # tag  #  and a line of text
TagLines ==
    {<<"#", "t", "a", "g">>,
     <<"#", "#", "t", "a", "g">>,
     <<"#", " ", "t", "a", "g">>,
     <<"#">>,
     <<"a">>}

TagTexts == LineTexts(TagLines, MaxTagLines)

\* a text with a block of every kind, and blank lines at its end
BranchTexts ==
    {<<"#", " ", "h", NL, "-", "-", "-", NL, ">", " ", "q", NL, NL>>
     \o Fence \o <<NL, "c", NL>> \o Fence
     \o <<NL, "-", " ", "i", NL, NL, "p", NL, NL, " ", NL>>}

\* the first item of a list, unordered and ordered
FirstItems ==
    {<<"-", " ", "a">>,
     <<"1", ".", " ", "a">>}

\* the line behind the first item:  -b  **bold**  ---  - c  2.b  2x  2. c
\* and c behind two spaces
SecondLines ==
    {<<"-", "b">>,
     <<"*", "*", "b", "o", "l", "d", "*", "*">>,
     <<"-", "-", "-">>,
     <<"-", " ", "c">>,
     <<"2", ".", "b">>,
     <<"2", "x">>,
     <<"2", ".", " ", "c">>,
     <<" ", " ", "c">>}

ItemTexts ==
    {first \o <<NL>> \o second : first \in FirstItems, second \in SecondLines}

\* a first item and a line behind it at which parseList stops without
\* reading an item: digits that no dot follows, and lines indented otherwise
\* than the first item
StopPairs ==
    {<<<<"1", ".", " ", "a">>,
       <<"2", "x">>>>,
     <<<<"1", ".", " ", "a">>,
       <<"2">>>>,
     <<<<"1", ".", " ", "a">>,
       <<" ", " ", "2", "x">>>>,
     <<<<"1", ".", " ", "a">>,
       <<" ", " ", "2", ".", " ", "d">>>>,
     <<<<"-", " ", "a">>,
       <<" ", " ", "-", " ", "e">>>>,
     <<<<"-", " ", "a">>,
       <<" ", "+", "e">>>>}

StopTexts == {pair[1] \o <<NL>> \o pair[2] : pair \in StopPairs}

Inputs ==
    InlineTexts \cup SpecialTexts \cup ListTexts \cup CodeTexts
    \cup HeadingTexts \cup MarkerTexts \cup LanguageTexts
    \cup HeadingLineTexts \cup HighlightTexts \cup SpanTexts \cup LinkTexts
    \cup SlugTexts \cup RuleTexts \cup ParagraphTexts \cup QuoteTexts
    \cup FenceInsideTexts
    \cup TagTexts
    \cup BranchTexts
    \cup ItemTexts
    \cup StopTexts

\* ------------------------------------------------------------------------
\* MarkdownEditor.updatePreview over the editor's text: new
\* MarkdownParser(markdown), parse(), render(), processCollapsibleSections,
\* generateTOC, applySyntaxHighlighting
\* ------------------------------------------------------------------------

\* this.length
length == Len(text)

\* the document before the preview is first written: no image, no overlay
NoDocument == [images |-> 0, expanded |-> {}, overlays |-> <<>>]

\* the img elements renderInlineContent wrote into a rendered string, which
\* carry the class expandable-image
ExpandableImages(r) ==
    Cardinality({i \in 1 .. Len(r) :
                    MatchesAt(r, i, ImgOpen) /\ r[i].src = "template"})

\* this.output.innerHTML = html: the elements of the preview are replaced by
\* new ones, none of which is expanded; the overlays are children of the body
\* and stay, each now closing over an image that has left the document
\* (image 0)
setInnerHTML(doc, r) ==
    [images |-> ExpandableImages(r),
     expanded |-> {},
     overlays |-> [j \in DOMAIN doc.overlays |-> 0]]

\* the parser is constructed and parse() has reset its cursor and headings
Init ==
    /\ text \in Inputs
    /\ position = 0
    /\ ast = <<>>
    /\ headings = <<>>
    /\ html = <<>>
    /\ toc = <<>>
    /\ codeBlocks = <<>>
    /\ returned = <<>>
    /\ array = 0
    /\ tocItems = <<>>
    /\ editor = [value |-> text, updateTimeout |-> 0]
    /\ timers = [pending |-> {}, last |-> 0]
    /\ document = NoDocument
    /\ pc = "parse"

\* the arrays handed out by earlier calls after a write to the array arr,
\* which holds value behind the write: every reference to arr sees it
Written(results, arr, value) ==
    [i \in DOMAIN results |->
        IF results[i].array = arr
        THEN [results[i] EXCEPT !.headings = value]
        ELSE results[i]]

\* one pass of the loop of parse(): parseBlock returns, its node is pushed,
\* and so are the headings it read, onto the array this.headings refers to
ParseBlockReturns ==
    /\ pc = "parse"
    /\ position < length
    /\ \E block \in {parseBlock(text, position)} :
           /\ ~block.diverges
           /\ position' = block.position
           /\ ast' = ast \o block.node
           /\ headings' = headings \o block.headings
    /\ returned' = Written(returned, array, headings')
    /\ UNCHANGED <<text, html, toc, codeBlocks, array, tocItems, editor,
                   timers, document, pc>>

\* one pass of the loop of parse(): parseBlock calls parseInline, whose loop
\* reaches a pass that changes nothing and repeats it from then on
ParseBlockSpins ==
    /\ pc = "parse"
    /\ position < length
    /\ \E block \in {parseBlock(text, position)} :
           /\ block.diverges
           /\ position' = block.position
    /\ pc' = "spinning"
    /\ UNCHANGED <<text, ast, headings, html, toc, codeBlocks, returned,
                   array, tocItems, editor, timers, document>>

\* the loop of parse() ends: parse returns ast and headings
ParseReturns ==
    /\ pc = "parse"
    /\ ~(position < length)
    /\ returned' =
           Append(returned,
                  [ast |-> ast, headings |-> headings, array |-> array])
    /\ pc' = "parsed"
    /\ UNCHANGED <<text, position, ast, headings, html, toc, codeBlocks,
                   array, tocItems, editor, timers, document>>

\* let html = this.renderer.render()
Render ==
    /\ pc = "parsed"
    /\ html' = render(ast)
    /\ pc' = "rendered"
    /\ UNCHANGED <<text, position, ast, headings, toc, codeBlocks, returned,
                   array, tocItems, editor, timers, document>>

\* html = processCollapsibleSections(html); this.output.innerHTML = html
ProcessCollapsible ==
    /\ pc = "rendered"
    /\ html' = processCollapsibleSections(html)
    /\ document' = setInnerHTML(document, html')
    /\ pc' = "collapsed"
    /\ UNCHANGED <<text, position, ast, headings, toc, codeBlocks, returned,
                   array, tocItems, editor, timers>>

\* const toc = this.renderer.generateTOC()
GenerateTOC ==
    /\ pc = "collapsed"
    /\ toc' = generateTOC(headings)
    /\ pc' = "done"
    /\ UNCHANGED <<text, position, ast, headings, html, codeBlocks, returned,
                   array, tocItems, editor, timers, document>>

\* this.renderer.applySyntaxHighlighting(): the innerHTML of the pre code
\* elements of the output behind it
ApplySyntaxHighlighting ==
    /\ pc = "done"
    /\ codeBlocks' = applySyntaxHighlighting(ast)
    /\ pc' = "highlighted"
    /\ UNCHANGED <<text, position, ast, headings, html, toc, returned, array,
                   tocItems, editor, timers, document>>

Next ==
    \/ ParseBlockReturns
    \/ ParseBlockSpins
    \/ ParseReturns
    \/ Render
    \/ ProcessCollapsible
    \/ GenerateTOC
    \/ ApplySyntaxHighlighting

Spec == Init /\ [][Next]_vars

\* ------------------------------------------------------------------------
\* parse() called again by the holder of a parser, and a second parser
\* constructed from the same text
\* ------------------------------------------------------------------------

\* the calls of parse() made on the text
MaxCalls == 2

\* this.headings.length = 0 in place of this.headings = []: the array the
\* field refers to is emptied and kept
parseEntryClearingInPlace(arr) ==
    [position |-> 0, headings |-> <<>>, array |-> arr]

\* the entry of parse(): this.position = 0; this.headings = [], a new array
parseEntry(arr) ==
    [position |-> 0, headings |-> <<>>, array |-> arr + 1]

\* the constructor: position = 0 and headings = [], a new array, by the
\* initializers of the fields
constructor(arr) ==
    [position |-> 0, headings |-> <<>>, array |-> arr + 1]

\* parse() is called again on the parser whose call has returned: const ast
\* = [], and the entry of parse()
ParseAgain ==
    /\ pc = "parsed"
    /\ Len(returned) < MaxCalls
    /\ \E entry \in {parseEntry(array)} :
           /\ position' = entry.position
           /\ headings' = entry.headings
           /\ array' = entry.array
           /\ returned' = Written(returned, entry.array, entry.headings)
    /\ ast' = <<>>
    /\ pc' = "parse"
    /\ UNCHANGED <<text, html, toc, codeBlocks, tocItems, editor, timers,
                   document>>

\* new MarkdownParser(text).parse() is entered: the constructor, const ast =
\* [], and the entry of parse()
ParseWithNewParser ==
    /\ pc = "parsed"
    /\ Len(returned) < MaxCalls
    /\ \E entry \in {parseEntry(constructor(array).array)} :
           /\ position' = entry.position
           /\ headings' = entry.headings
           /\ array' = entry.array
           /\ returned' = Written(returned, entry.array, entry.headings)
    /\ ast' = <<>>
    /\ pc' = "parse"
    /\ UNCHANGED <<text, html, toc, codeBlocks, tocItems, editor, timers,
                   document>>

ReparseNext ==
    \/ ParseBlockReturns
    \/ ParseBlockSpins
    \/ ParseReturns
    \/ ParseAgain
    \/ ParseWithNewParser

ReparseSpec == Init /\ [][ReparseNext]_vars

\* ------------------------------------------------------------------------
\* MarkdownEditor: the input listener with its timer, updatePreview run by
\* the timer, and the clicks on expandable images and on overlays.  A
\* listener runs when no other code of the page does.
\* ------------------------------------------------------------------------

\* the input events of a session
MaxInputs == 2

\* what the textarea holds after an input event
EditorTexts ==
    {<<"a">>,
     <<"[">>,
     <<"!", "[", "a", "]", "(", "u", ")">>,
     <<"!", "[", "a", "]", "(", "u", ")", "!", "[", "b", "]", "(", "v", ")">>}

\* window.clearTimeout(handle)
clearTimeout(t, handle) == [t EXCEPT !.pending = @ \ {handle}]

\* window.setTimeout(callback, 300): a handle that was never issued before,
\* and never 0
setTimeout(t) ==
    [pending |-> t.pending \cup {t.last + 1}, last |-> t.last + 1]

\* the content setInitialContent puts into the textarea, cut down to a
\* paragraph with an image; parse() returns on it as it does on the sample
sampleMarkdown == <<"!", "[", "a", "]", "(", "u", ")">>

\* the constructor has set the value of the textarea and calls updatePreview
EditorInit ==
    /\ text = sampleMarkdown
    /\ position = 0
    /\ ast = <<>>
    /\ headings = <<>>
    /\ html = <<>>
    /\ toc = <<>>
    /\ codeBlocks = <<>>
    /\ returned = <<>>
    /\ array = 0
    /\ tocItems = <<>>
    /\ editor = [value |-> text, updateTimeout |-> 0]
    /\ timers = [pending |-> {}, last |-> 0]
    /\ document = NoDocument
    /\ pc = "parse"

\* the listener of the input event: the textarea holds a new value, the timer
\* set by the event before is cleared and a new one is set
EditorInput ==
    /\ pc = "highlighted"
    /\ timers.last < MaxInputs
    /\ \E value \in EditorTexts :
           editor' = [value |-> value, updateTimeout |-> timers.last + 1]
    /\ timers' =
           setTimeout(IF editor.updateTimeout # 0
                      THEN clearTimeout(timers, editor.updateTimeout)
                      ELSE timers)
    /\ UNCHANGED <<text, position, ast, headings, html, toc, codeBlocks,
                   returned, array, tocItems, document, pc>>

\* a pending timer fires and its callback enters updatePreview: the value of
\* the textarea is read and a parser constructed for it, whose parse() starts
TimerFires ==
    /\ pc = "highlighted"
    /\ \E handle \in timers.pending :
           timers' = clearTimeout(timers, handle)
    /\ text' = editor.value
    /\ \E entry \in {parseEntry(constructor(array).array)} :
           /\ position' = entry.position
           /\ headings' = entry.headings
           /\ array' = entry.array
    /\ ast' = <<>>
    /\ pc' = "parse"
    /\ UNCHANGED <<html, toc, codeBlocks, returned, tocItems, editor,
                   document>>

\* handleImageClick(img) for the image k of the preview: the class expanded
\* is toggled; an overlay that closes over img is appended to the body when
\* the image is now expanded, and the first overlay of the document is
\* removed when it is not
handleImageClick(doc, k) ==
    IF k \notin doc.expanded
    THEN [doc EXCEPT !.expanded = @ \cup {k}, !.overlays = Append(@, k)]
    ELSE [doc EXCEPT !.expanded = @ \ {k},
                     !.overlays = IF @ # <<>> THEN Tail(@) ELSE @]

\* overlay.onclick of the overlay j: the class expanded is removed from the
\* image the handler closes over, and the overlay from the body
overlayClick(doc, j) ==
    [doc EXCEPT !.expanded = @ \ {doc.overlays[j]},
                !.overlays = SubSeq(@, 1, j - 1) \o SubSeq(@, j + 1, Len(@))]

\* a click on an expandable image of the preview
ImageClick ==
    /\ pc = "highlighted"
    /\ \E k \in 1 .. document.images :
           document' = handleImageClick(document, k)
    /\ UNCHANGED <<text, position, ast, headings, html, toc, codeBlocks,
                   returned, array, tocItems, editor, timers, pc>>

\* a click on an overlay
OverlayClick ==
    /\ pc = "highlighted"
    /\ \E j \in 1 .. Len(document.overlays) :
           document' = overlayClick(document, j)
    /\ UNCHANGED <<text, position, ast, headings, html, toc, codeBlocks,
                   returned, array, tocItems, editor, timers, pc>>

\* the steps of updatePreview
UpdatePreview ==
    \/ ParseBlockReturns
    \/ ParseBlockSpins
    \/ ParseReturns
    \/ Render
    \/ ProcessCollapsible
    \/ GenerateTOC
    \/ ApplySyntaxHighlighting

EditorNext ==
    \/ ParseBlockReturns
    \/ ParseBlockSpins
    \/ ParseReturns
    \/ Render
    \/ ProcessCollapsible
    \/ GenerateTOC
    \/ ApplySyntaxHighlighting
    \/ EditorInput
    \/ TimerFires
    \/ ImageClick
    \/ OverlayClick

EditorSpec == EditorInit /\ [][EditorNext]_vars

\* the code that runs goes on running, and a pending timer fires once no
\* listener runs; input events and clicks may stop at any time
EditorFairSpec ==
    EditorSpec /\ WF_vars(UpdatePreview) /\ WF_vars(TimerFires)

\* ------------------------------------------------------------------------
\* Regular expressions over plain strings, as the variants in src/unnamed use
\* them.  An expression is a sequence of elements.  A run is greedy and keeps
\* what it took, which is all the expressions of part_000 and part_001 need;
\* a run that has to give characters back to the rest of the expression, as
\* \s+ before (.+) in part_002, is a RunBack.
\* Indices into strings are 1-based here.
\* ------------------------------------------------------------------------

\* String.prototype.split: the pieces of t between the separators
RECURSIVE Split(_, _)
Split(t, sep) ==
    IF \E i \in 1 .. Len(t) : t[i] = sep
    THEN <<SubSeq(t, 1, Least({i \in 1 .. Len(t) : t[i] = sep}) - 1)>>
         \o Split(SubSeq(t, Least({i \in 1 .. Len(t) : t[i] = sep}) + 1,
                         Len(t)), sep)
    ELSE <<t>>

\* the literal s
Lit(s) ==
    [kind |-> "lit", s |-> s, cs |-> {}, neg |-> FALSE, min |-> 0, max |-> 0]

\* a greedy run of min to max characters of the class cs, captured
RunUpTo(cs, min, max) ==
    [kind |-> "run", s |-> <<>>, cs |-> cs, neg |-> FALSE, min |-> min,
     max |-> max]

\* a greedy run of at least min characters of the class cs, captured
RunOf(cs, min) ==
    [kind |-> "run", s |-> <<>>, cs |-> cs, neg |-> FALSE, min |-> min,
     max |-> 0]

\* a greedy run of at least min characters outside cs, captured
RunNot(cs, min) ==
    [kind |-> "run", s |-> <<>>, cs |-> cs, neg |-> TRUE, min |-> min,
     max |-> 0]

\* a run of at least min characters of the class cs, captured, as long as
\* can be with the rest of the expression still matching
RunBack(cs, min) ==
    [kind |-> "back", s |-> <<>>, cs |-> cs, neg |-> FALSE, min |-> min,
     max |-> 0]

\* the greatest member of a set of positive numbers, 0 for the empty set
Greatest(S) == IF S = {} THEN 0 ELSE CHOOSE j \in S : \A k \in S : j >= k

\* ([\s\S]*?): the shortest stretch behind which the rest matches, captured
Lazy ==
    [kind |-> "lazy", s |-> <<>>, cs |-> {}, neg |-> FALSE, min |-> 0,
     max |-> 0]

\* \b
Edge ==
    [kind |-> "edge", s |-> <<>>, cs |-> {}, neg |-> FALSE, min |-> 0,
     max |-> 0]

\* $ without the flag m
End ==
    [kind |-> "end", s |-> <<>>, cs |-> {}, neg |-> FALSE, min |-> 0,
     max |-> 0]

\* the string s holds lit from index i on
StartsAt(s, i, lit) ==
    /\ i + Len(lit) - 1 <= Len(s)
    /\ \A k \in 1 .. Len(lit) : s[i + k - 1] = lit[k]

\* the index behind the greedy run of the element e that starts at i
RunStop(s, i, e) ==
    Let(Least({j \in i .. Len(s) : (s[j] \in e.cs) = e.neg}), LAMBDA j :
    Let(IF j = 0 THEN Len(s) + 1 ELSE j, LAMBDA stop :
        IF e.max > 0 /\ stop - i > e.max THEN i + e.max ELSE stop))

\* a word character stands at index i
WordAt(s, i) == i >= 1 /\ i <= Len(s) /\ s[i] \in WordChars

NoMatch == [ok |-> FALSE, end |-> 0, groups |-> <<>>]

\* the match of the elements at index i: whether there is one, the index
\* behind it, and what the runs and lazy stretches captured after groups
RECURSIVE MatchFrom(_, _, _, _)
MatchFrom(s, i, elems, groups) ==
    IF elems = <<>> THEN [ok |-> TRUE, end |-> i, groups |-> groups]
    ELSE IF Head(elems).kind = "lit"
    THEN IF StartsAt(s, i, Head(elems).s)
         THEN MatchFrom(s, i + Len(Head(elems).s), Tail(elems), groups)
         ELSE NoMatch
    ELSE IF Head(elems).kind = "run"
    THEN Let(RunStop(s, i, Head(elems)), LAMBDA stop :
             IF stop - i >= Head(elems).min
             THEN MatchFrom(s, stop, Tail(elems),
                            Append(groups, SubSeq(s, i, stop - 1)))
             ELSE NoMatch)
    ELSE IF Head(elems).kind = "back"
    THEN Let(Greatest({j \in i + Head(elems).min .. RunStop(s, i, Head(elems)) :
                          MatchFrom(s, j, Tail(elems), <<>>).ok}), LAMBDA j :
             IF j = 0 THEN NoMatch
             ELSE MatchFrom(s, j, Tail(elems),
                            Append(groups, SubSeq(s, i, j - 1))))
    ELSE IF Head(elems).kind = "lazy"
    THEN Let(Least({j \in i .. Len(s) + 1 :
                       MatchFrom(s, j, Tail(elems), <<>>).ok}), LAMBDA j :
             IF j = 0 THEN NoMatch
             ELSE MatchFrom(s, j, Tail(elems),
                            Append(groups, SubSeq(s, i, j - 1))))
    ELSE IF Head(elems).kind = "edge"
    THEN IF WordAt(s, i - 1) # WordAt(s, i)
         THEN MatchFrom(s, i, Tail(elems), groups)
         ELSE NoMatch
    ELSE IF i = Len(s) + 1
         THEN MatchFrom(s, i, Tail(elems), groups)
         ELSE NoMatch

\* the first index from i on at which the elements match, 0 when none does
FirstMatchFrom(s, i, elems) ==
    Least({j \in i .. Len(s) : MatchFrom(s, j, elems, <<>>).ok})

\* line.match(regex) for an expression anchored by ^
MatchLine(line, elems) == MatchFrom(line, 1, elems, <<>>)

\* the decimal digits of a number
RECURSIVE Decimal(_)
Decimal(n) ==
    IF n < 10 THEN <<ToString(n)>>
    ELSE Decimal(n \div 10) \o <<ToString(n % 10)>>

\* ------------------------------------------------------------------------
\* src/unnamed/part_001: parseMarkdown, which rewrites the text by regular
\* expressions and keeps the headings in the module-level tocItems
\* ------------------------------------------------------------------------

\* the strings ss[a] to ss[b], one after the other
RECURSIVE Concat(_, _, _)
Concat(ss, a, b) ==
    IF a > b THEN <<>>
    ELSE IF a = b THEN ss[a]
    ELSE Concat(ss, a, (a + b) \div 2) \o Concat(ss, (a + b) \div 2 + 1, b)

\* str.replace(/c/g, by) for a character c
ReplaceChar(str, c, by) ==
    Concat([i \in DOMAIN str |-> IF str[i] = c THEN by ELSE <<str[i]>>],
           1, Len(str))

P1_escapeHTML(str) ==
    ReplaceChar(ReplaceChar(ReplaceChar(ReplaceChar(str,
        "&", <<"&", "a", "m", "p", ";">>),
        "<", <<"&", "l", "t", ";">>),
        ">", <<"&", "g", "t", ";">>),
        "\"", <<"&", "q", "u", "o", "t", ";">>)

\* the keywords of simpleSyntaxHighlight, in its order
P1_keywords ==
    <<<<"c", "o", "n", "s", "t">>,
      <<"l", "e", "t">>,
      <<"f", "u", "n", "c", "t", "i", "o", "n">>,
      <<"i", "f">>,
      <<"e", "l", "s", "e">>,
      <<"f", "o", "r">>,
      <<"w", "h", "i", "l", "e">>,
      <<"r", "e", "t", "u", "r", "n">>,
      <<"c", "l", "a", "s", "s">>,
      <<"i", "n", "t", "e", "r", "f", "a", "c", "e">>,
      <<"i", "m", "p", "o", "r", "t">>,
      <<"e", "x", "p", "o", "r", "t">>>>

\* /<!--\s*collapse\s*-->([\s\S]*?)<!--\s*\/collapse\s*-->/gm
P1_collapseRegex ==
    <<Lit(<<"<", "!", "-", "-">>), RunOf(JsWhiteSpace, 0), Lit(
        <<"c", "o", "l", "l", "a", "p", "s", "e">>),
      RunOf(JsWhiteSpace, 0), Lit(<<"-", "-", ">">>), Lazy, Lit(
          <<"<", "!", "-", "-">>),
      RunOf(JsWhiteSpace, 0), Lit(
          <<"/", "c", "o", "l", "l", "a", "p", "s", "e">>
          ), RunOf(JsWhiteSpace, 0),
      Lit(<<"-", "-", ">">>)>>

\* the expressions replaced all over a string, each with the name of its
\* replacement
P1_fenceRegex ==
    [name |-> "fence",
     elems |-> <<Lit(Fence), RunOf(WordChars, 0), Lit(<<NL>>), Lazy,
                 Lit(Fence)>>]

P1_inlineCodeRegex ==
    [name |-> "inlineCode",
     elems |-> <<Lit(<<Backtick>>), RunNot({Backtick}, 1),
                 Lit(<<Backtick>>)>>]

P1_boldRegex ==
    [name |-> "bold",
     elems |-> <<Lit(<<"*", "*">>), RunNot({"*"}, 1), Lit(<<"*", "*">>)>>]

P1_italicRegex ==
    [name |-> "italic",
     elems |-> <<Lit(<<"*">>), RunNot({"*"}, 1), Lit(<<"*">>)>>]

P1_imageRegex ==
    [name |-> "image",
     elems |-> <<Lit(<<"!", "[">>), RunNot({"]"}, 0), Lit(<<"]", "(">>),
                 RunNot({")"}, 1), Lit(<<")">>)>>]

P1_linkRegex ==
    [name |-> "link",
     elems |-> <<Lit(<<"[">>), RunNot({"]"}, 1), Lit(<<"]", "(">>),
                 RunNot({")"}, 1), Lit(<<")">>)>>]

\* new RegExp(`\\b${kw}\\b`, "g")
P1_keywordRegex(kw) ==
    [name |-> "keyword", elems |-> <<Edge, Lit(kw), Edge>>]

\* str.replace(regex, replacement) for a global expression, from index i on:
\* every match is replaced, the leftmost first, and the search goes on behind
\* the match
RECURSIVE P1_simpleSyntaxHighlight(_, _)
RECURSIVE P1_replace(_, _, _)
\* what a match is replaced with: whole is the match, groups what it captured
P1_replacement(name, whole, groups) ==
    IF name = "fence"
    THEN <<"<", "p", "r", "e", " ", "c", "l", "a", "s", "s", "=", "\"", "c",
           "o", "d", "e", "-", "b", "l", "o", "c", "k", "\"", ">", "<", "c",
           "o", "d", "e", " ", "d", "a", "t", "a", "-", "l", "a", "n", "g",
           "=", "\"">> \o groups[1]
         \o <<"\"", ">">>
         \o P1_simpleSyntaxHighlight(P1_escapeHTML(groups[2]), P1_keywords)
         \o <<"<", "/", "c", "o", "d", "e", ">", NL, " ", " ", "<", "b",
              "u", "t", "t", "o", "n", " ", "c", "l", "a", "s", "s", "=",
              "\"", "c", "o", "p", "y", "-", "c", "o", "d", "e", "-", "b",
              "u", "t", "t", "o", "n", "\"", ">", "C", "o", "p", "y", " ",
              "C", "o", "d", "e", "<", "/", "b", "u", "t", "t", "o", "n",
              ">", NL, "<", "/", "p", "r", "e", ">">>
    ELSE IF name = "inlineCode"
    THEN <<"<", "c", "o", "d", "e", ">">>
        \o P1_escapeHTML(groups[1]) \o <<"<", "/", "c", "o", "d", "e", ">">>
    ELSE IF name = "bold"
    THEN <<"<", "s", "t", "r", "o", "n", "g", ">">>
        \o groups[1] \o <<"<", "/", "s", "t", "r", "o", "n", "g", ">">>
    ELSE IF name = "italic"
    THEN <<"<", "e", "m", ">">> \o groups[1] \o <<"<", "/", "e", "m", ">">>
    ELSE IF name = "image"
    THEN <<"<", "i", "m", "g", " ", "a", "l", "t", "=", "\"">>
        \o groups[1] \o <<"\"", " ", "s", "r", "c", "=", "\"">> \o groups[2]
         \o <<"\"", " ", "c", "l", "a", "s", "s", "=", "\"", "e", "x", "p",
              "a", "n", "d", "a", "b", "l", "e", "\"", " ", "/", ">">>
    ELSE IF name = "link"
    THEN <<"<", "a", " ", "h", "r", "e", "f", "=", "\"">>
        \o groups[2] \o
            <<"\"", " ", "t", "a", "r", "g", "e", "t", "=", "\"", "_", "b",
              "l", "a", "n", "k", "\"", ">">> \o groups[1]
         \o <<"<", "/", "a", ">">>
    ELSE <<"<", "s", "p", "a", "n", " ", "c", "l", "a", "s", "s", "=", "\"",
           "s", "y", "n", "t", "a", "x", "-", "k", "e", "y", "w", "o", "r",
           "d", "\"", ">">> \o whole \o
               <<"<", "/", "s", "p", "a", "n", ">">>

P1_replace(str, i, regex) ==
    Let(FirstMatchFrom(str, i, regex.elems), LAMBDA start :
        IF start = 0 THEN SubSeq(str, i, Len(str))
        ELSE Let(MatchFrom(str, start, regex.elems, <<>>), LAMBDA m :
                 SubSeq(str, i, start - 1)
                 \o P1_replacement(regex.name,
                                   SubSeq(str, start, m.end - 1), m.groups)
                 \o P1_replace(str, m.end, regex)))

\* simpleSyntaxHighlight: the keywords left to replace are kws
P1_simpleSyntaxHighlight(code, kws) ==
    IF kws = <<>> THEN code
    ELSE P1_simpleSyntaxHighlight(
             P1_replace(code, 1, P1_keywordRegex(Head(kws))), Tail(kws))

\* /^(#{1,6})\s+(.*)$/
P1_headingRegex ==
    <<RunUpTo({"#"}, 1, 6), RunOf(JsWhiteSpace, 1), RunNot(LineTerminators, 0),
      End>>

\* /^---\s*$/
P1_hrRegex == <<Lit(<<"-", "-", "-">>), RunOf(JsWhiteSpace, 0), End>>

\* /^>\s+(.*)$/
P1_blockquoteRegex ==
    <<Lit(<<">">>), RunOf(JsWhiteSpace, 1), RunNot(LineTerminators, 0), End>>

\* /^(\d+)\.\s+(.*)$/
P1_orderedListRegex ==
    <<RunOf(Digits, 1), Lit(<<".">>), RunOf(JsWhiteSpace, 1),
      RunNot(LineTerminators, 0), End>>

\* /^[-\*]\s+(.*)$/
P1_unorderedListRegex ==
    <<RunUpTo({"-", "*"}, 1, 1), RunOf(JsWhiteSpace, 1),
      RunNot(LineTerminators, 0), End>>

\* while (listStack.length > 0) htmlLines.push(`</${listStack.pop()}>`)
RECURSIVE P1_closeLists(_, _)
P1_closeLists(htmlLines, listStack) ==
    IF listStack = <<>> THEN htmlLines
    ELSE P1_closeLists(
             Append(htmlLines,
                    <<"<", "/">> \o listStack[Len(listStack)] \o <<">">>),
             SubSeq(listStack, 1, Len(listStack) - 1))

\* a line of a list: the list of another kind is closed, the list is opened
\* when none of its kind is open, and the item is pushed
P1_listLine(htmlLines, listStack, tag, content) ==
    IF listStack = <<>> \/ listStack[Len(listStack)] # tag
    THEN [htmlLines |->
              (IF listStack # <<>>
               THEN Append(htmlLines,
                           <<"<", "/">> \o listStack[Len(listStack)] \o
                               <<">">>)
               ELSE htmlLines)
              \o <<<<"<">> \o tag \o <<">">>,
                   <<"<", "l", "i", ">">> \o content \o
                       <<"<", "/", "l", "i", ">">>>>,
          listStack |->
              Append(IF listStack # <<>>
                     THEN SubSeq(listStack, 1, Len(listStack) - 1)
                     ELSE listStack, tag)]
    ELSE [htmlLines |-> Append(htmlLines, <<"<", "l", "i", ">">>
        \o content \o <<"<", "/", "l", "i", ">">>),
          listStack |-> listStack]

\* the loop over the lines: htmlLines, and tocItems behind it
RECURSIVE P1_lineLoop(_, _, _, _, _)
P1_lineLoop(lines, i, htmlLines, listStack, items) ==
    IF ~(i <= Len(lines))
    THEN [htmlLines |-> P1_closeLists(htmlLines, listStack), tocItems |-> items]
    ELSE IF MatchLine(lines[i], P1_headingRegex).ok
    THEN Let(MatchLine(lines[i], P1_headingRegex).groups, LAMBDA headingMatch :
         Let([level |-> Len(headingMatch[1]),
              id |-> <<"h", "e", "a", "d", "i", "n", "g", "-">>
                  \o Decimal(Len(items)),
              text |-> Trim(headingMatch[3])], LAMBDA heading :
             P1_lineLoop(lines, i + 1,
                 Append(htmlLines,
                        <<"<", "h">> \o Decimal(heading.level) \o
                            <<" ", "i", "d", "=", "\"">>
                        \o heading.id \o <<"\"", ">">>
                        \o heading.text \o <<"<", "/", "h">>
                        \o Decimal(heading.level) \o <<">">>),
                 listStack, Append(items, heading))))
    ELSE IF MatchLine(lines[i], P1_hrRegex).ok
    THEN P1_lineLoop(lines, i + 1, Append(htmlLines,
        <<"<", "h", "r", " ", "/", ">">>), listStack,
                     items)
    ELSE IF MatchLine(lines[i], P1_blockquoteRegex).ok
    THEN P1_lineLoop(lines, i + 1,
             Append(htmlLines,
                    <<"<", "b", "l", "o", "c", "k", "q", "u", "o", "t", "e",
                      ">">>
                    \o MatchLine(lines[i], P1_blockquoteRegex).groups[2]
                    \o <<"<", "/", "b", "l", "o", "c", "k", "q", "u", "o",
                         "t", "e", ">">>),
             listStack, items)
    ELSE IF MatchLine(lines[i], P1_orderedListRegex).ok
    THEN Let(P1_listLine(htmlLines, listStack, <<"o", "l">>,
                 MatchLine(lines[i], P1_orderedListRegex).groups[3]),
             LAMBDA list :
             P1_lineLoop(lines, i + 1, list.htmlLines, list.listStack, items))
    ELSE IF MatchLine(lines[i], P1_unorderedListRegex).ok
    THEN Let(P1_listLine(htmlLines, listStack, <<"u", "l">>,
                 MatchLine(lines[i], P1_unorderedListRegex).groups[3]),
             LAMBDA list :
             P1_lineLoop(lines, i + 1, list.htmlLines, list.listStack, items))
    ELSE P1_lineLoop(lines, i + 1,
             IF Trim(lines[i]) # <<>>
             THEN Append(P1_closeLists(htmlLines, listStack),
                         <<"<", "p", ">">> \o lines[i] \o
                             <<"<", "/", "p", ">">>)
             ELSE P1_closeLists(htmlLines, listStack),
             <<>>, items)

\* parseMarkdown(text) called when tocItems holds items: the string it returns
\* and the tocItems it leaves
RECURSIVE P1_parseMarkdown(_, _)
\* text.replace(collapse expression, callback) from index i on: the callback
\* parses the section by a call of parseMarkdown, which leaves its own
\* tocItems behind
RECURSIVE P1_replaceCollapsible(_, _, _)
P1_replaceCollapsible(str, i, items) ==
    Let(FirstMatchFrom(str, i, P1_collapseRegex), LAMBDA start :
        IF start = 0
        THEN [text |-> SubSeq(str, i, Len(str)), tocItems |-> items]
        ELSE Let(MatchFrom(str, start, P1_collapseRegex, <<>>), LAMBDA m :
             Let(P1_parseMarkdown(m.groups[3], items), LAMBDA inner :
             Let(P1_replaceCollapsible(str, m.end, inner.tocItems),
                 LAMBDA rest :
                 [text |->
                      SubSeq(str, i, start - 1)
                      \o <<"<", "d", "i", "v", " ", "c", "l", "a", "s", "s",
                           "=", "\"", "c", "o", "l", "l", "a", "p", "s",
                           "i", "b", "l", "e", "\"", ">", NL, " ", " ", "<",
                           "b", "u", "t", "t", "o", "n", " ", "c", "l", "a",
                           "s", "s", "=", "\"", "c", "o", "l", "l", "a",
                           "p", "s", "e", "-", "t", "o", "g", "g", "l", "e",
                           "\"", ">", "T", "o", "g", "g", "l", "e", "<",
                           "/", "b", "u", "t", "t", "o", "n", ">", NL, " ",
                           " ", "<", "d", "i", "v", " ", "c", "l", "a", "s",
                           "s", "=", "\"", "c", "o", "l", "l", "a", "p",
                           "s", "e", "-", "c", "o", "n", "t", "e", "n", "t",
                           "\"", ">", NL, " ", " ", " ", " ">>
                      \o inner.html
                      \o <<NL, " ", " ", "<", "/", "d", "i", "v", ">", NL,
                           "<", "/", "d", "i", "v", ">">>
                      \o rest.text,
                  tocItems |-> rest.tocItems]))))

\* tocItems = [] at the entry of parseMarkdown
P1_resetTocItems(items) == <<>>

P1_parseMarkdown(markdown, items) ==
    Let(P1_replaceCollapsible(markdown, 1, P1_resetTocItems(items)),
        LAMBDA collapsed :
    Let(P1_replace(P1_replace(collapsed.text, 1, P1_fenceRegex), 1,
                   P1_inlineCodeRegex), LAMBDA replaced :
    Let(P1_lineLoop(Split(replaced, NL), 1, <<>>, <<>>, collapsed.tocItems),
        LAMBDA loop :
        [html |->
             P1_replace(P1_replace(P1_replace(P1_replace(
                 Join(loop.htmlLines, <<NL>>),
                 1, P1_boldRegex), 1, P1_italicRegex), 1, P1_imageRegex),
                 1, P1_linkRegex),
         tocItems |-> loop.tocItems])))

RECURSIVE P1_tocEntries(_)
P1_tocEntries(items) ==
    IF items = <<>> THEN <<>>
    ELSE <<"<", "l", "i", " ", "c", "l", "a", "s", "s", "=", "\"", "t", "o",
           "c", "-", "l", "e", "v", "e", "l", "-">>
        \o Decimal(Head(items).level)
         \o <<"\"", ">", NL, " ", " ", " ", " ", " ", " ", "<", "a", " ",
              "h", "r", "e", "f", "=", "\"", "#">> \o Head(items).id
         \o <<"\"", " ", "c", "l", "a", "s", "s", "=", "\"", "t", "o", "c",
              "-", "l", "i", "n", "k", "\"", ">">> \o Head(items).text
         \o <<"<", "/", "a", ">", NL, " ", " ", " ", " ", "<", "/", "l",
              "i", ">">> \o P1_tocEntries(Tail(items))

P1_generateTOC(items) ==
    IF Len(items) = 0 THEN
        <<"<", "p", ">", "N", "o", " ", "h", "e", "a", "d", "i", "n", "g",
          "s", "<", "/", "p", ">">>
    ELSE <<"<", "u", "l", ">">> \o P1_tocEntries(items) \o
        <<"<", "/", "u", "l", ">">>

\* two collapsible sections with a heading each
P1_twoSections ==
    <<"<", "!", "-", "-", " ", "c", "o", "l", "l", "a", "p", "s", "e", " ",
      "-", "-", ">", NL, "#", " ", "A", NL, "<", "!", "-", "-", " ", "/",
      "c", "o", "l", "l", "a", "p", "s", "e", " ", "-", "-", ">", NL, "<",
      "!", "-", "-", " ", "c", "o", "l", "l", "a", "p", "s", "e", " ", "-",
      "-", ">", NL, "#", "#", " ", "B", NL, "<", "!", "-", "-", " ", "/",
      "c", "o", "l", "l", "a", "p", "s", "e", " ", "-", "-", ">">>

\* the texts of the editor of part_001: lines with headings, the markers of
\* collapsible sections and text
MaxRegexLines == 4

RegexLines ==
    {<<"#", " ", "A">>,
     <<"#", "#", " ", "B">>,
     <<"<", "!", "-", "-", " ", "c", "o", "l", "l", "a", "p", "s", "e", " ",
       "-", "-", ">">>,
     <<"<", "!", "-", "-", " ", "/", "c", "o", "l", "l", "a", "p", "s", "e",
       " ", "-", "-", ">">>,
     <<"a">>}

\* texts with the other constructs parseMarkdown rewrites
RegexSamples ==
    {<<Backtick, Backtick, Backtick, "j", "s", NL, "c", "o", "n", "s", "t",
       " ", "a", " ", "=", " ", "1", " ", "<", " ", "2", ";", NL, "#", " ",
       "c", NL, Backtick, Backtick, Backtick, NL, "#", " ", "A">>,
     <<"#", " ", Backtick, "x", Backtick, " ", "a", "n", "d", " ", "*", "*",
       "b", "*", "*", " ", "a", "n", "d", " ", "*", "i", "*", NL, "-", " ",
       "o", "n", "e", NL, "-", " ", "t", "w", "o", NL, "1", ".", " ", "t",
       "h", "r", "e", "e", NL, "-", "-", "-", NL, ">", " ", "q", NL, NL,
       "l", "a", "s", "t">>,
     <<"!", "[", "a", "l", "t", "]", "(", "u", ")", " ", "[", "t", "]", "(",
       "v", ")", NL, "#", "#", "#", "#", "#", "#", "#", " ", "s", "e", "v",
       "e", "n", NL, "#", "t", "a", "g">>,
     <<"<", "!", "-", "-", "c", "o", "l", "l", "a", "p", "s", "e", "-", "-",
       ">", NL, "#", " ", "A", NL, Backtick, Backtick, Backtick, NL, "i",
       "f", NL, Backtick, Backtick, Backtick, NL, "<", "!", "-", "-", " ",
       " ", "/", "c", "o", "l", "l", "a", "p", "s", "e", " ", " ", "-", "-",
       ">", NL, "#", " ", "B">>}

RegexTexts ==
    LineTexts(RegexLines, MaxRegexLines) \cup RegexSamples
    \cup {P1_twoSections}

\* what tocItems holds when updateRenderedOutput is called: nothing, or the
\* heading of a text rendered before
StaleTocItems ==
    {<<>>,
     <<[level |-> 1, id |-> <<"h", "e", "a", "d", "i", "n", "g", "-", "0">>
         , text |-> <<"O", "l", "d">>]>>}

\* the editor holds a text and updateRenderedOutput is about to run
RegexInit ==
    /\ text \in RegexTexts
    /\ tocItems \in StaleTocItems
    /\ html = <<>>
    /\ toc = <<>>
    /\ position = 0
    /\ ast = <<>>
    /\ headings = <<>>
    /\ codeBlocks = <<>>
    /\ returned = <<>>
    /\ array = 0
    /\ editor = [value |-> text, updateTimeout |-> 0]
    /\ timers = [pending |-> {}, last |-> 0]
    /\ document = NoDocument
    /\ pc = "input"

\* outputDiv.innerHTML = parseMarkdown(markdownInput)
P1_RenderOutput ==
    /\ pc = "input"
    /\ \E result \in {P1_parseMarkdown(text, tocItems)} :
           /\ html' = result.html
           /\ tocItems' = result.tocItems
    /\ pc' = "output"
    /\ UNCHANGED <<text, position, ast, headings, toc, codeBlocks, returned,
                   array, editor, timers, document>>

\* tocDiv.innerHTML = generateTOC()
P1_RenderTOC ==
    /\ pc = "output"
    /\ toc' = P1_generateTOC(tocItems)
    /\ pc' = "toc"
    /\ UNCHANGED <<text, position, ast, headings, html, codeBlocks, returned,
                   array, tocItems, editor, timers, document>>

RegexNext == P1_RenderOutput \/ P1_RenderTOC

RegexSpec == RegexInit /\ [][RegexNext]_vars

\* ------------------------------------------------------------------------
\* src/unnamed/part_000: MarkdownParser.parse, which reads the text line by
\* line and collects the items of a list until a line flushes them
\* ------------------------------------------------------------------------

\* String.prototype.indexOf(' '), 0-based, -1 when there is none
P0_indexOfSpace(line) == Least({k \in 1 .. Len(line) : line[k] = " "}) - 1

\* /^#{1,6}\s/
P0_headingRegex == <<RunUpTo({"#"}, 1, 6), RunUpTo(JsWhiteSpace, 1, 1)>>

\* /^[-*+]\s/
P0_bulletRegex ==
    <<RunUpTo({"-", "*", "+"}, 1, 1), RunUpTo(JsWhiteSpace, 1, 1)>>

\* /^\d+\.\s/
P0_numberRegex ==
    <<RunOf(Digits, 1), Lit(<<".">>), RunUpTo(JsWhiteSpace, 1, 1)>>

\* line.replace(regex, '') for an expression anchored by ^ that matches
P0_withoutMatch(line, regex) ==
    SubSeq(line, MatchLine(line, regex).end, Len(line))

\* the locals of parse() before the loop
P0_locals ==
    [blocks |-> <<>>, currentList |-> <<>>, inCodeBlock |-> FALSE,
     codeBlockContent |-> <<>>, currentLang |-> <<>>]

\* if (currentList.length > 0) { blocks.push(list); currentList = [] }
P0_flushList(st) ==
    IF Len(st.currentList) > 0
    THEN [st EXCEPT !.blocks =
                        Append(@, [type |-> "list", items |-> st.currentList,
                                   content |-> <<>>]),
                    !.currentList = <<>>]
    ELSE st

\* the lines of the loop from the flush of the list on
P0_afterFlush(st, line) ==
    IF line = <<"-", "-", "-">>
    THEN [st EXCEPT !.blocks = Append(@, [type |-> "hr", content |-> <<>>])]
    ELSE IF line # <<>>
    THEN [st EXCEPT !.blocks =
                        Append(@, [type |-> "paragraph", content |-> line])]
    ELSE st

\* one pass of the loop, for the line trimmed at its end
P0_pass(st, line) ==
    IF StartsWith(line, Fence)
    THEN IF st.inCodeBlock
         THEN [st EXCEPT !.blocks =
                             Append(@, [type |-> "code",
                                        content |->
                                            Join(st.codeBlockContent, <<NL>>),
                                        lang |-> st.currentLang]),
                         !.codeBlockContent = <<>>,
                         !.inCodeBlock = FALSE]
         ELSE [st EXCEPT !.inCodeBlock = TRUE,
                         !.currentLang = Trim(SubSeq(line, 4, Len(line)))]
    ELSE IF st.inCodeBlock
    THEN [st EXCEPT !.codeBlockContent = Append(@, line)]
    ELSE IF MatchLine(line, P0_headingRegex).ok
    THEN [st EXCEPT !.blocks =
                        Append(@, [type |-> "heading",
                                   content |->
                                       SubSeq(line, P0_indexOfSpace(line) + 2,
                                              Len(line)),
                                   level |-> P0_indexOfSpace(line)])]
    ELSE IF StartsWith(line, <<">", " ">>)
    THEN [st EXCEPT !.blocks =
                        Append(@, [type |-> "blockquote",
                                   content |-> SubSeq(line, 3, Len(line))])]
    ELSE IF MatchLine(line, P0_bulletRegex).ok
    THEN [st EXCEPT !.currentList =
                        Append(@, P0_withoutMatch(line, P0_bulletRegex))]
    ELSE IF MatchLine(line, P0_numberRegex).ok
    THEN [st EXCEPT !.currentList =
                        Append(@, P0_withoutMatch(line, P0_numberRegex))]
    ELSE P0_afterFlush(P0_flushList(st), line)

\* for (let i = 0; i < lines.length; i++), from the line i on (1-based)
RECURSIVE P0_loop(_, _, _)
P0_loop(lines, i, st) ==
    IF ~(i <= Len(lines)) THEN st
    ELSE P0_loop(lines, i + 1, P0_pass(st, TrimEnd(lines[i])))

\* parse(markdown): return blocks
P0_parse(markdown) == P0_loop(Split(markdown, NL), 1, P0_locals).blocks

\* ------------------------------------------------------------------------
\* src/unnamed/part_002: MarkdownParser.parse, which reads this.content line
\* by line into this.parsedTokens and this.tocItems
\* ------------------------------------------------------------------------

\* /^(#{1,6})\s+(.+)/
P2_HEADING_REGEX ==
    <<RunUpTo({"#"}, 1, 6), RunBack(JsWhiteSpace, 1),
      RunNot(LineTerminators, 1)>>

\* /^>\s+(.+)/
P2_BLOCKQUOTE_REGEX ==
    <<Lit(<<">">>), RunBack(JsWhiteSpace, 1), RunNot(LineTerminators, 1)>>

\* /^-{3,}/
P2_HORIZONTAL_RULE_REGEX == <<RunOf({"-"}, 3)>>

\* /^[-*+]\s+(.+)/
P2_UNORDERED_LIST_ITEM_REGEX ==
    <<RunUpTo({"-", "*", "+"}, 1, 1), RunBack(JsWhiteSpace, 1),
      RunNot(LineTerminators, 1)>>

\* /^(\d+)\.\s+(.+)/
P2_ORDERED_LIST_ITEM_REGEX ==
    <<RunOf(Digits, 1), Lit(<<".">>), RunBack(JsWhiteSpace, 1),
      RunNot(LineTerminators, 1)>>

\* /^```(\w*)/
P2_FENCED_CODE_BLOCK_START_REGEX == <<Lit(Fence), RunOf(WordChars, 0)>>

\* /^```$/
P2_FENCED_CODE_BLOCK_END_REGEX == <<Lit(Fence), End>>

\* replace(/-+/g, '-')
RECURSIVE P2_squeezeHyphens(_)
P2_squeezeHyphens(t) ==
    IF Len(t) < 2 THEN t
    ELSE IF t[1] = "-" /\ t[2] = "-" THEN P2_squeezeHyphens(Tail(t))
    ELSE <<t[1]>> \o P2_squeezeHyphens(Tail(t))

P2_generateHeadingId(t) ==
    P2_squeezeHyphens(SpacesToHyphens(RemoveSpecial(toLowerCase(t))))

\* null, where a token may stand
P2_null == [type |-> "null"]

\* parsedTokens and tocItems as parseAndRender leaves them, and the locals of
\* parse() before the loop
P2_locals ==
    [parsedTokens |-> <<>>, tocItems |-> <<>>, inFencedCodeBlock |-> FALSE,
     currentCodeBlock |-> P2_null, inList |-> FALSE, currentList |-> P2_null,
     currentListItems |-> <<>>, isOrderedList |-> FALSE]

\* this.parsedTokens.push(currentList), whose items are the array
\* currentListItems; currentList = null
P2_pushList(st) ==
    IF st.currentList.type # "null"
    THEN [st EXCEPT !.parsedTokens =
                        Append(@, [st.currentList EXCEPT
                                       !.items = st.currentListItems]),
                    !.currentList = P2_null]
    ELSE st

\* a line of a list: the list is opened when none is, and the item pushed
P2_listItem(st, line, ordered, item) ==
    IF ~st.inList
    THEN [st EXCEPT !.inList = TRUE,
                    !.isOrderedList = ordered,
                    !.currentListItems = <<item>>,
                    !.currentList =
                        [type |-> "list", content |-> <<>>, raw |-> line,
                         ordered |-> ordered, items |-> <<>>]]
    ELSE [st EXCEPT !.currentListItems = Append(@, item)]

\* the pass of the loop from "Skip empty lines" on
P2_block(st, line) ==
    IF Trim(line) = <<>> THEN st
    ELSE IF MatchLine(line, P2_HEADING_REGEX).ok
    THEN Let(Trim(MatchLine(line, P2_HEADING_REGEX).groups[3]),
             LAMBDA content :
             [st EXCEPT !.parsedTokens =
                            Append(@, [type |-> "heading",
                                       content |-> content, raw |-> line,
                                       depth |->
                                           Len(MatchLine(line,
                                               P2_HEADING_REGEX).groups[1])]),
                        !.tocItems =
                            Append(@, [id |-> P2_generateHeadingId(content),
                                       text |-> content,
                                       level |->
                                           Len(MatchLine(line,
                                               P2_HEADING_REGEX).groups[1])])])
    ELSE IF MatchLine(line, P2_BLOCKQUOTE_REGEX).ok
    THEN [st EXCEPT !.parsedTokens =
                        Append(@, [type |-> "blockquote",
                                   content |->
                                       MatchLine(line,
                                           P2_BLOCKQUOTE_REGEX).groups[2],
                                   raw |-> line])]
    ELSE IF MatchLine(line, P2_HORIZONTAL_RULE_REGEX).ok
    THEN [st EXCEPT !.parsedTokens =
                        Append(@, [type |-> "hr", content |-> <<>>,
                                   raw |-> line])]
    ELSE [st EXCEPT !.parsedTokens =
                        Append(@, [type |-> "paragraph", content |-> line,
                                   raw |-> line])]

\* one pass of the loop of parse()
P2_pass(st, line) ==
    IF MatchLine(line, P2_FENCED_CODE_BLOCK_START_REGEX).ok
       /\ ~st.inFencedCodeBlock
    THEN [st EXCEPT !.inFencedCodeBlock = TRUE,
                    !.currentCodeBlock =
                        [type |-> "fenced-code", content |-> <<>>,
                         raw |-> line,
                         lang |->
                             MatchLine(line,
                                 P2_FENCED_CODE_BLOCK_START_REGEX).groups[1]]]
    ELSE IF MatchLine(line, P2_FENCED_CODE_BLOCK_END_REGEX).ok
            /\ st.inFencedCodeBlock
    THEN [st EXCEPT !.inFencedCodeBlock = FALSE,
                    !.parsedTokens =
                        IF st.currentCodeBlock.type # "null"
                        THEN Append(@, st.currentCodeBlock) ELSE @,
                    !.currentCodeBlock = P2_null]
    ELSE IF st.inFencedCodeBlock
    THEN IF st.currentCodeBlock.type # "null"
         THEN [st EXCEPT !.currentCodeBlock.content = @ \o line \o <<NL>>,
                         !.currentCodeBlock.raw = @ \o <<NL>> \o line]
         ELSE st
    ELSE IF MatchLine(line, P2_UNORDERED_LIST_ITEM_REGEX).ok
    THEN P2_listItem(st, line,
             MatchLine(line, P2_ORDERED_LIST_ITEM_REGEX).ok,
             MatchLine(line, P2_UNORDERED_LIST_ITEM_REGEX).groups[3])
    ELSE IF MatchLine(line, P2_ORDERED_LIST_ITEM_REGEX).ok
    THEN P2_listItem(st, line, TRUE,
             MatchLine(line, P2_ORDERED_LIST_ITEM_REGEX).groups[3])
    ELSE IF st.inList /\ Trim(line) = <<>>
    THEN P2_pushList([st EXCEPT !.inList = FALSE])
    ELSE IF st.inList
    THEN IF StartsWith(line, <<" ", " ">>) /\ Len(st.currentListItems) > 0
         THEN [st EXCEPT !.currentListItems[Len(st.currentListItems)] =
                             @ \o <<NL>> \o Trim(line)]
         ELSE P2_block(P2_pushList([st EXCEPT !.inList = FALSE]), line)
    ELSE P2_block(st, line)

\* while (lineIndex < lines.length), from the line i on (1-based)
RECURSIVE P2_loop(_, _, _)
P2_loop(lines, i, st) ==
    IF ~(i <= Len(lines)) THEN st
    ELSE P2_loop(lines, i + 1, P2_pass(st, lines[i]))

\* if (inList && currentList) this.parsedTokens.push(currentList)
P2_endOfDocument(st) == IF st.inList THEN P2_pushList(st) ELSE st

\* parse(): this.parsedTokens and this.tocItems behind it
P2_parse(content) ==
    P2_endOfDocument(P2_loop(Split(content, NL), 1, P2_locals))

\* the texts given to parse: lines of every kind the loop tells apart
MaxBlockLines == 3

BlockLines ==
    {<<"#", " ", "H">>
        , <<">", " ", "q">>, <<"-", " ", "a">>
            , <<"2", ".", " ", "b">>, <<"-", "-", "-">>, <<"p">>
                , <<" ", " ", "c">>, <<>>,
     <<Backtick, Backtick, Backtick>>}

BlockTexts == LineTexts(BlockLines, MaxBlockLines)

\* a text is handed to parse
BlockInit ==
    /\ text \in BlockTexts
    /\ position = 0
    /\ ast = <<>>
    /\ headings = <<>>
    /\ html = <<>>
    /\ toc = <<>>
    /\ codeBlocks = <<>>
    /\ returned = <<>>
    /\ array = 0
    /\ tocItems = <<>>
    /\ editor = [value |-> text, updateTimeout |-> 0]
    /\ timers = [pending |-> {}, last |-> 0]
    /\ document = NoDocument
    /\ pc = "markdown"

\* const blocks = parser.parse(markdown)
P0_Parse ==
    /\ pc = "markdown"
    /\ ast' = P0_parse(text)
    /\ pc' = "blocks"
    /\ UNCHANGED <<text, position, headings, html, toc, codeBlocks, returned,
                   array, tocItems, editor, timers, document>>

\* this.parse() of part_002 with the text as this.content
P2_Parse ==
    /\ pc = "markdown"
    /\ \E parsed \in {P2_parse(text)} :
           /\ ast' = parsed.parsedTokens
           /\ tocItems' = parsed.tocItems
    /\ pc' = "tokens"
    /\ UNCHANGED <<text, position, headings, html, toc, codeBlocks, returned,
                   array, editor, timers, document>>

LineNext == P0_Parse \/ P2_Parse

LineSpec == BlockInit /\ [][LineNext]_vars

\* ------------------------------------------------------------------------
\* Properties
\* ------------------------------------------------------------------------

\* the states in which render() has returned
Rendered == pc \in {"rendered", "collapsed", "done"}

\* the contents of the nodes of a list, one after the other
Contents(nodes) == [i \in DOMAIN nodes |-> nodes[i].content]

\* the number of places where pat occurs in the rendered string r
Occurrences(r, pat) == Cardinality({i \in 1 .. Len(r) : MatchesAt(r, i, pat)})

\* C1: parse() terminates on every text: no call of parseInline made for a
\* block's text gets into a pass of its loop that it repeats for ever, also
\* when the text holds an opening bracket that starts no complete link or
\* image.
C1_ParseTerminates == pc # "spinning"

\* [a](  and  ![a](  and  [
MalformedLinkTexts ==
    {<<"[", "a", "]", "(">>,
     <<"!", "[", "a", "]", "(">>,
     <<"[">>}

\* C2: a malformed link or image opener is emitted by parseInline as text
\* nodes whose contents concatenate to the original characters, and is
\* rendered as escaped literal text, without an anchor or image tag.
C2_MalformedLinkIsPlainText ==
    (text \in MalformedLinkTexts /\ position > 0) =>
        /\ pc # "spinning"
        /\ Len(ast) = 1
        /\ ast[1].type = "paragraph"
        /\ \A i \in DOMAIN ast[1].children : ast[1].children[i].type = "text"
        /\ Flatten(Contents(ast[1].children)) = text
        /\ (pc = "rendered" =>
               html = OpenTag(<<"p">>) \o escapeHTML(text) \o CloseTag(<<"p">>))

\* C3: the HTML render() returns holds the characters < > & " ' that were
\* copied from the user's text only in escaped form, wherever user text is
\* inserted, the language tag of a code block included.
C3_UserTextEscaped ==
    pc = "rendered" =>
        \A i \in DOMAIN html :
            html[i].src = "user" => html[i].c \notin SpecialChars

\* - a, - b, 1. c on three consecutive lines
TwoKindsOfItems ==
    <<"-", " ", "a", NL, "-", " ", "b", NL, "1", ".", " ", "c">>

\* <ul><li>a</li><li>b</li></ul><ol><li>c</li></ol>
TwoListsHtml ==
    <<"<", "u", "l", ">", "<", "l", "i", ">", "a", "<", "/", "l", "i", ">",
      "<", "l", "i", ">", "b", "<", "/", "l", "i", ">", "<", "/", "u", "l",
      ">", "<", "o", "l", ">", "<", "l", "i", ">", "c", "<", "/", "l", "i",
      ">", "<", "/", "o", "l", ">">>

\* C4: the lines - a and - b followed at once by the line 1. c give an
\* unordered list of exactly the two items a and b, closed by the line with
\* the marker of the other kind, and then an ordered list with the item c.
C4_OtherMarkerKindClosesList ==
    (text = TwoKindsOfItems /\ pc = "rendered") =>
        /\ Len(ast) = 2
        /\ ast[1].type = "list" /\ ~ast[1].ordered
        /\ Contents(ast[1].children) = <<<<"a">>, <<"b">>>>
        /\ ast[2].type = "list" /\ ast[2].ordered
        /\ Contents(ast[2].children) = <<<<"c">>>>
        /\ Chars(html) = TwoListsHtml

\* d start markers and then d end markers, one marker a line
NestedMarkers(d) ==
    Join([i \in 1 .. 2 * d |-> IF i <= d THEN CollapseStart ELSE CollapseEnd],
         <<NL>>)

\* C5: marker pairs nested to depth d give, after processCollapsibleSections,
\* d toggle containers: d opening details tags and d closing ones.
C5_NestedCollapsibles ==
    \A d \in 1 .. (MaxMarkerLines \div 2) :
        (text = NestedMarkers(d) /\ pc = "collapsed") =>
            /\ Occurrences(html, DetailsOpen) = d
            /\ Occurrences(html, DetailsClose) = d

\* <hN id="title">Title</hN>
HeadingHtml(level) ==
    <<"<", "h">>
    \o <<ToString(level)>> \o
    <<" ", "i", "d", "=", "\"", "t", "i", "t", "l", "e", "\"", ">", "T", "i",
      "t", "l", "e", "<", "/", "h">>
    \o <<ToString(level)>> \o <<">">>

\* the table of contents with the one entry of the heading Title
TitleTocHtml(level) ==
    <<"<", "u", "l", " ", "c", "l", "a", "s", "s", "=", "\"", "t", "o", "c",
      "-", "l", "i", "s", "t", "\"", ">", "<", "l", "i", " ", "c", "l", "a",
      "s", "s", "=", "\"", "t", "o", "c", "-", "i", "t", "e", "m", " ", "t",
      "o", "c", "-", "l", "e", "v", "e", "l", "-">>
    \o <<ToString(level)>> \o
    <<"\"", ">", NL, " ", " ", " ", " ", " ", " ", " ", " ", "<", "a", " ",
      "h", "r", "e", "f", "=", "\"", "#", "t", "i", "t", "l", "e", "\"", ">",
      "T", "i", "t", "l", "e", "<", "/", "a", ">", NL, " ", " ", " ", " ",
      " ", " ", "<", "/", "l", "i", ">", "<", "/", "u", "l", ">">>

\* <p>a</p>
ParagraphAHtml ==
    <<"<", "p", ">", "a", "<", "/", "p", ">">>

\* C6: n marker characters, a space and Title give a heading node of level
\* n, of level 6 when n is 7 or more, rendered as <hN id="title">Title</hN>,
\* and exactly one entry of the table of contents with that id, level and
\* text; every heading node has a level from 1 to 6.
C6_HeadingLevel ==
    /\ \A i \in DOMAIN headings : headings[i].level \in 1 .. 6
    /\ \A i \in DOMAIN ast :
           ast[i].type = "heading" => ast[i].level \in 1 .. 6
    /\ \A n \in 1 .. MaxHashes, tail \in HeadingTails :
           (text = Hashes(n) \o SpaceTitle \o tail /\ position > 0) =>
               \E level \in {IF n <= 6 THEN n ELSE 6} :
                   /\ pc # "spinning"
                   /\ ast[1] = [type |-> "heading",
                                level |-> level,
                                content |-> <<"T", "i", "t", "l", "e">>,
                                children |->
                                    <<[type |-> "text",
                                       content |-> <<"T", "i", "t", "l", "e">>]>>]
                   /\ headings = <<ast[1]>>
                   /\ (Rendered =>
                          Chars(html) =
                              HeadingHtml(level)
                              \o (IF tail = <<NL, NL, "a">>
                                  THEN ParagraphAHtml
                                  ELSE <<>>))
                   /\ (pc = "done" => Chars(toc) = TitleTocHtml(level))

\* the clamp of C6 at work: seven marker characters, a heading of level 6
C6_SevenMarkersRendered ==
    /\ pc = "done"
    /\ text = Hashes(7) \o SpaceTitle
    /\ headings # <<>>
    /\ headings[1].level = 6
    /\ Chars(html) = HeadingHtml(6)

\* the delimiters ** and * and the backtick, each opening a span of a that is
\* never closed
UnterminatedTexts ==
    {<<"*", "*", "a">>,
     <<"*", "a">>,
     <<Backtick, "a">>}

\* C7: an opening delimiter without a closing one before the end of the text
\* gives no bold, italic or inline code node: the delimiter and the rest of
\* the text are emitted as plain text, so that the HTML holds no strong, em
\* or code tag for it.
C7_UnterminatedIsPlainText ==
    (text \in UnterminatedTexts /\ pc = "rendered") =>
        /\ Len(ast) = 1
        /\ \A i \in DOMAIN ast[1].children : ast[1].children[i].type = "text"
        /\ Flatten(Contents(ast[1].children)) = text
        /\ html = OpenTag(<<"p">>) \o escapeHTML(text) \o CloseTag(<<"p">>)

\* the block that starts at q is a fence that nothing closes: no three
\* backticks stand anywhere behind its opening line
UnterminatedFenceAt(q) ==
    /\ q < Len(text)
    /\ Substring(text, q, q + 3) = Fence
    /\ \A i \in (skipUntilNewline(text, q + 3) + 1) .. (Len(text) - 1) :
           Substring(text, i, i + 3) # Fence

\* what C8 says of one step of the pipeline
UnterminatedFenceStep ==
    /\ \A q \in {skipEmptyLines(text, position)} :
           (pc = "parse" /\ position < length /\ UnterminatedFenceAt(q)) =>
               /\ pc' = "parse"
               /\ ast' =
                      Append(ast,
                             [type |-> "code",
                              content |->
                                  Trim(Substring(text,
                                           skipUntilNewline(text, q + 3) + 1,
                                           Len(text))),
                              language |->
                                  Trim(Substring(text, q + 3,
                                           skipUntilNewline(text, q + 3)))])
               /\ position' >= length
               /\ headings' = headings
    /\ (pc = "parse" /\ ~(position < length)) =>
           (pc' = "parsed" /\ ast' = ast)

\* C8: at an opening fence that no closing fence follows, parseCodeBlock
\* returns one code node whose content is all the text behind the opening
\* line, trimmed as the content of every code block is, and leaves the cursor
\* at or behind the end of the text; parse then returns without a later block.
C8_UnterminatedFence == [][UnterminatedFenceStep]_vars

\* an unterminated fence consumed to the end of the text: its content runs
\* over the two lines behind the opening line
C8_UnterminatedFenceParsed ==
    /\ pc = "parsed"
    /\ text = <<Backtick, Backtick, Backtick, "j", "s", NL, "a", NL, "*", "*",
              "b", "*", "*">>
    /\ ast = <<[type |-> "code",
                content |-> <<"a", NL, "*", "*", "b", "*", "*">>,
                language |-> <<"j", "s">>]>>
    /\ position >= length

\* what stands on the one line between two fences
FencedLines == CodeLines \ {Fence, Fence \o <<"j", "s">>}

\* C9: the content of a code node is the exact text between the opening
\* fence line and the closing fence, less at most one leading and one
\* trailing newline: the indentation of the first code line and the trailing
\* spaces of the last one are kept.
C9_CodeContentVerbatim ==
    \A line \in FencedLines :
        (text = Fence \o <<NL>> \o line \o <<NL>> \o Fence /\ pc = "parsed") =>
            ast = <<[type |-> "code", content |-> line, language |-> <<>>]>>

\* the opening tags of the markup renderInlineContent writes
InlineMarkup ==
    {<<"<", "s", "t", "r", "o", "n", "g", ">">>,
     <<"<", "e", "m", ">">>,
     <<"<", "a", " ">>,
     <<"<", "i", "m", "g", " ">>}

\* C10: a fenced code block is never inline-parsed: the code node has no
\* children, and render() puts escapeHTML(content) and nothing else between
\* the code tags, so that delimiters inside the fence give no strong, em,
\* anchor or image markup.
C10_CodeNeverInlineParsed ==
    /\ \A i \in DOMAIN ast :
           ast[i].type = "code" =>
               DOMAIN ast[i] = {"type", "content", "language"}
    /\ (pc = "rendered" /\ \A i \in DOMAIN ast : ast[i].type = "code") =>
           \A tag \in InlineMarkup : Occurrences(html, tag) = 0
    /\ (pc = "rendered" /\ Len(ast) = 1 /\ ast[1].type = "code") =>
           SubSeq(html,
                  Len(CodeBlockOpen) + Len(ast[1].language) + 3,
                  Len(html) - Len(CodeBlockClose))
               = escapeHTML(ast[1].content)

\* bold markup inside a fence, rendered
C10_BoldInsideFenceRendered ==
    /\ pc = "rendered"
    /\ text = <<Backtick, Backtick, Backtick, NL, "*", "*", "b", "*", "*", NL,
              Backtick, Backtick, Backtick>>
    /\ ast[1].type = "code"
    /\ ast[1].content = <<"*", "*", "b", "*", "*">>
    /\ Occurrences(html, <<"*", "*", "b", "*", "*">>) = 1


\* the first index from i on where the string s holds a character of cs, 0
\* when there is none
FirstOf(s, i, cs) == Least({j \in i .. Len(s) : s[j] \in cs})

\* the first index from i on where a double-quoted attribute value opens in
\* the string s: an equals sign with a double quote behind it
FirstValue(s, i) ==
    Least({j \in i .. (Len(s) - 1) : s[j] = "=" /\ s[j + 1] = "\""})

\* the index of the > that ends the opening tag whose attributes are read
\* from index i on, 0 when the tag never ends: a > inside a double-quoted
\* attribute value does not end the tag
RECURSIVE TagEnd(_, _)
TagEnd(s, i) ==
    Let(FirstOf(s, i, {">"}), LAMBDA gt :
    Let(FirstValue(s, i), LAMBDA eq :
        IF gt = 0 THEN 0
        ELSE IF eq = 0 \/ gt < eq THEN gt
        ELSE Let(FirstOf(s, eq + 2, {"\""}), LAMBDA quote :
                 IF quote = 0 THEN 0 ELSE TagEnd(s, quote + 1))))

\* the tags of the string s from index i on, as an HTML tokenizer reads
\* them: <name ...> opens, </name> closes, any other < is text; a tag that
\* never ends is reported as an opening tag
RECURSIVE Tags(_, _)
Tags(s, i) ==
    Let(FirstOf(s, i, {"<"}), LAMBDA lt :
        IF lt = 0 \/ lt = Len(s) THEN <<>>
        ELSE IF s[lt + 1] = "/"
        THEN Let(FirstOf(s, lt, {">"}), LAMBDA gt :
                 IF gt = 0
                 THEN <<[closing |-> TRUE, name |-> <<>>]>>
                 ELSE <<[closing |-> TRUE,
                         name |-> SubSeq(s, lt + 2, gt - 1)]>>
                      \o Tags(s, gt + 1))
        ELSE IF s[lt + 1] \in WordChars
        THEN Let(TagEnd(s, lt), LAMBDA gt :
                 IF gt = 0
                 THEN <<[closing |-> FALSE, name |-> <<>>]>>
                 ELSE <<[closing |-> FALSE,
                         name |-> SubSeq(s, lt + 1,
                                         FirstOf(s, lt, {" ", ">"}) - 1)]>>
                      \o Tags(s, gt + 1))
        ELSE Tags(s, lt + 1))

\* the elements that have no closing tag
VoidElements ==
    {<<"h", "r">>,
     <<"i", "m", "g">>}

\* the tags are properly nested: each closing tag closes the element opened
\* last among those still open, and none is left open at the end
RECURSIVE Nested(_, _)
Nested(tags, open) ==
    IF tags = <<>> THEN open = <<>>
    ELSE IF Head(tags).name \in VoidElements THEN Nested(Tail(tags), open)
    ELSE IF ~Head(tags).closing
         THEN Nested(Tail(tags), <<Head(tags).name>> \o open)
    ELSE /\ open # <<>>
         /\ Head(open) = Head(tags).name
         /\ Nested(Tail(tags), Tail(open))

\* C11: the HTML render() returns is structurally balanced: every opening
\* tag has its closing tag, in properly nested order, whatever user text,
\* the language tag of a fence included, is substituted into the templates.
C11_TagsBalanced ==
    pc = "rendered" => Nested(Tags(Chars(html), 1), <<>>)

\* the tags of ordinary markup are balanced: the check of C11 on the texts
\* whose fences carry no language or the language js
C11_BalancedWithoutLanguage ==
    (pc = "rendered"
     /\ \A i \in DOMAIN ast :
            ast[i].type = "code" => ast[i].language \in {<<>>, <<"j", "s">>})
        => Nested(Tags(Chars(html), 1), <<>>)


\* the numbers of a finite set in increasing order
RECURSIVE Ascending(_)
Ascending(S) ==
    IF S = {} THEN <<>>
    ELSE Let(Least(S), LAMBDA least : <<least>> \o Ascending(S \ {least}))

\* the characters of the rendered string r from index i up to the next
\* double quote
UpToQuote(r, i) ==
    Let(Chars(r), LAMBDA s : SubSeq(s, i, FirstOf(s, i, {"\""}) - 1))

\* the entries of the table of contents r, in the order they stand in: the
\* level of the class toc-level-N and the id of the href
TocEntries(r) ==
    Let(Ascending({i \in 1 .. Len(r) : MatchesAt(r, i, TocItemOpen)}),
        LAMBDA at :
        [k \in DOMAIN at |->
            [level |-> r[at[k] + Len(TocItemOpen)].c,
             id |-> UpToQuote(r, at[k] + Len(TocItemOpen) + 1
                                 + Len(TocItemLink))]])

\*  id="
IdAttribute ==
    <<" ", "i", "d", "=", "\"">>

\* the heading tags <hN id="..."> of the rendered string r, in the order
\* they stand in: the level N and the id
HeadingTags(r) ==
    Let(Ascending({i \in 1 .. (Len(r) - 2) :
                      /\ r[i] = [c |-> "<", src |-> "template"]
                      /\ r[i + 1].c = "h"
                      /\ r[i + 2].src = "number"
                      /\ MatchesAt(r, i + 3, IdAttribute)}),
        LAMBDA at :
        [k \in DOMAIN at |->
            [level |-> r[at[k] + 2].c,
             id |-> UpToQuote(r, at[k] + 3 + Len(IdAttribute))]])

\* the heading nodes among the nodes, in their order
HeadingNodes(nodes) == SelectSeq(nodes, LAMBDA node : node.type = "heading")

\* C12: the heading list of parse() is exactly the sequence of the heading
\* nodes of the AST in document order; generateTOC emits one entry for each
\* heading, in that order, whose href id is the id attribute render() puts on
\* that heading and whose level class is the level of the heading.
C12_TocFollowsHeadings ==
    /\ pc # "spinning" => headings = HeadingNodes(ast)
    /\ pc = "done" =>
           /\ Len(TocEntries(toc)) = Len(headings)
           /\ Len(HeadingTags(render(ast))) = Len(headings)
           /\ \A k \in DOMAIN headings :
                  /\ TocEntries(toc)[k].level = ToString(headings[k].level)
                  /\ TocEntries(toc)[k].level = HeadingTags(render(ast))[k].level
                  /\ TocEntries(toc)[k].id = HeadingTags(render(ast))[k].id

\* three headings of three levels and two titles, with their table of
\* contents
C12_ThreeHeadingsListed ==
    /\ pc = "done"
    /\ text = <<"#", "#", " ", "U", " ", "v", NL, "#", " ", "T", NL, "#", "#",
              "#", " ", "T">>
    /\ Len(headings) = 3
    /\ TocEntries(toc) =
           <<[level |-> "2", id |-> <<"u", "-", "v">>],
             [level |-> "1", id |-> <<"t">>],
             [level |-> "3", id |-> <<"t">>]>>


\* the length of the marker highlightCode inserted whole at index j of r, an
\* opening <span class="token ..."> or a closing </span>; 0 when no whole
\* marker starts there
MarkerLen(r, j) ==
    IF r[j].src # "span" THEN 0
    ELSE IF SubSeq(r, j, Min(Len(r), j + Len(SpanOpen(r[j].rule)) - 1))
            = SpanOpen(r[j].rule)
    THEN Len(SpanOpen(r[j].rule))
    ELSE IF SubSeq(r, j, Min(Len(r), j + Len(SpanClose(r[j].rule)) - 1))
            = SpanClose(r[j].rule)
    THEN Len(SpanClose(r[j].rule))
    ELSE 0

\* r from index i on with every whole marker deleted
RECURSIVE StripMarkers(_, _)
StripMarkers(r, i) ==
    Let(Least({j \in i .. Len(r) : MarkerLen(r, j) # 0}), LAMBDA j :
        IF j = 0 THEN SubSeq(r, i, Len(r))
        ELSE SubSeq(r, i, j - 1) \o StripMarkers(r, j + MarkerLen(r, j)))

\* the whole markers of r from index i on, in the order they stand in, each
\* with the rule that inserted it
RECURSIVE Markers(_, _)
Markers(r, i) ==
    Let(Least({j \in i .. Len(r) : MarkerLen(r, j) # 0}), LAMBDA j :
        IF j = 0 THEN <<>>
        ELSE <<[closing |-> r[j + 1].c = "/", name |-> r[j].rule]>>
             \o Markers(r, j + MarkerLen(r, j)))

\* no marker stands inside an entity escapeHTML wrote: behind each of its
\* characters but the last comes the next one
EntitiesWhole(r) ==
    \A i \in DOMAIN r :
        (r[i].src = "escape" /\ r[i].c # ";") =>
            (i < Len(r) /\ r[i + 1].src = "escape")

\* C13: highlightCode never alters the text: its result with every inserted
\* span marker deleted is escapeHTML(code); the spans of the successive
\* rules do not overlap, and no rule matches inside a marker or an entity
\* inserted before it.
C13_HighlightKeepsText ==
    pc = "highlighted" =>
        \A k \in DOMAIN codeBlocks :
            /\ StripMarkers(codeBlocks[k], 1)
                   = escapeHTML(CodeNodes(ast)[k].content)
            /\ Nested(Markers(codeBlocks[k], 1), <<>>)
            /\ EntitiesWhole(codeBlocks[k])


\* the HTML the claim C14 gives a span: <strong>x</strong>, <em>y</em>, the
\* text itself
SpanHtml(span) ==
    IF span.type = "bold" THEN StrongOpen \o span.content \o StrongClose
    ELSE IF span.type = "italic" THEN EmOpen \o span.content \o EmClose
    ELSE span.content

\* <strong>bold</strong> and <em>italic</em>
BoldAndItalicHtml ==
    <<"<", "s", "t", "r", "o", "n", "g", ">", "b", "o", "l", "d", "<", "/",
      "s", "t", "r", "o", "n", "g", ">", " ", "a", "n", "d", " ", "<", "e",
      "m", ">", "i", "t", "a", "l", "i", "c", "<", "/", "e", "m", ">">>

C14_BoldAndItalicExample ==
    (text = BoldAndItalic /\ pc = "rendered") =>
        /\ ast[1].children =
               <<[type |-> "bold", content |-> <<"b", "o", "l", "d">>],
                 [type |-> "text", content |-> <<" ", "a", "n", "d", " ">>],
                 [type |-> "italic",
                  content |-> <<"i", "t", "a", "l", "i", "c">>]>>
        /\ Chars(html) =
               <<"<", "p", ">">> \o BoldAndItalicHtml \o <<"<", "/", "p", ">">>


\* the url begins with http:// or https:// or //
BeginsExternal(url) ==
    \E prefix \in {<<"h", "t", "t", "p", ":", "/", "/">>,
                    <<"h", "t", "t", "p", "s", ":", "/", "/">>,
                    <<"/", "/">>} :
        Len(url) >= Len(prefix) /\ SubSeq(url, 1, Len(prefix)) = prefix

\*  target="_blank"
TargetBlank ==
    <<" ", "t", "a", "r", "g", "e", "t", "=", "\"", "_", "b", "l", "a", "n", "k", "\"">>

\*  rel="noopener noreferrer"
RelNoOpener ==
    <<" ", "r", "e", "l", "=", "\"", "n", "o", "o", "p", "e", "n", "e", "r", " ", "n", "o", "r", "e", "f", "e", "r", "r", "e", "r", "\"">>

\* C15: a link whose url begins with http://, https:// or // is rendered
\* with target="_blank" and a no-opener rel attribute, and every other
\* link, to a fragment or a relative path, with neither attribute.
C15_ExternalLinks ==
    \A url \in LinkUrls, before \in {<<>>, <<"b", " ">>} :
        (text = before \o LinkTo(url) /\ pc = "rendered") =>
            /\ Chars(html) =
                   <<"<", "p", ">">> \o before
                   \o <<"<", "a", " ", "h", "r", "e", "f", "=", "\"">> \o url \o <<"\"">>
                   \o (IF BeginsExternal(url)
                       THEN TargetBlank \o RelNoOpener
                       ELSE <<>>)
                   \o <<">", "a", "<", "/", "a", ">", "<", "/", "p", ">">>
            /\ Occurrences(html, <<" ", "t", "a", "r", "g", "e", "t", "=">>)
                   = (IF BeginsExternal(url) THEN 1 ELSE 0)
            /\ Occurrences(html, <<" ", "r", "e", "l", "=">>)
                   = (IF BeginsExternal(url) THEN 1 ELSE 0)

\* a protocol-relative link rendered with the target attribute
C15_ProtocolRelativeRendered ==
    /\ pc = "rendered"
    /\ text = LinkTo(<<"/", "/", "x">>)
    /\ ast[1].children[1].type = "link"
    /\ Occurrences(html, TargetBlank) = 1


\* the characters the slug of the claim C16 keeps: a to z, 0 to 9, white
\* space and the hyphen
SlugChars ==
    {LowerCase[i] : i \in 1 .. 26} \cup Digits \cup JsWhiteSpace \cup {"-"}

\* the slug of the claim C16: the text in lower case, without the characters
\* outside SlugChars, each run of white space replaced by one hyphen, hyphens
\* at both ends stripped
Slug(t) ==
    StripHyphens(
        SpacesToHyphens(
            SelectSeq(toLowerCase(t), LAMBDA c : c \in SlugChars)))

\* C16: generateHeadingId(text) is the slug of the text: lower case, only
\* the characters a to z, 0 to 9, white space and hyphen kept, each run of
\* white space made one hyphen, hyphens at both ends stripped; so every id is
\* made of a to z, 0 to 9 and hyphens and neither begins nor ends with a
\* hyphen.
C16_HeadingIdIsSlug ==
    pc = "rendered" =>
        \A k \in DOMAIN headings :
            \E id \in {HeadingTags(html)[k].id} :
                /\ id = Slug(headings[k].content)
                /\ \A i \in DOMAIN id :
                       id[i] \in ({LowerCase[j] : j \in 1 .. 26}
                                  \cup Digits \cup {"-"})
                /\ id = <<>> \/ (id[1] # "-" /\ id[Len(id)] # "-")

\* what C16 says of the titles without an underscore
C16_SlugWithoutUnderscore ==
    pc = "rendered" =>
        \A k \in DOMAIN headings :
            (\A i \in DOMAIN headings[k].content :
                 headings[k].content[i] # "_") =>
                HeadingTags(html)[k].id = Slug(headings[k].content)


\* the line is a rule as the claim C17 defines it: three or more
\* occurrences of one rule character and, beside them, white space only
IsRule(line) ==
    \E char \in {"-", "*", "_"} :
        /\ \A i \in DOMAIN line : line[i] = char \/ isWhitespace(line[i])
        /\ Cardinality({i \in DOMAIN line : line[i] = char}) >= 3

\* C17: a line is classified as a horizontal rule exactly when it is made
\* of three or more occurrences of one of the characters - * _ with at most
\* white space between them, as --- and *** and ___ and - - - are; a line
\* with any other character is classified as another block.
C17_RuleLines ==
    \A line \in RuleLines, tail \in RuleTails :
        (text = line \o tail /\ pc = "parsed") =>
            (ast[1].type = "hr" <=> IsRule(line))

\* what holds of the lines of C17: a rule is a line that begins with three
\* rule characters of one kind and holds, behind them, only that character
\* and white space
C17_RuleBeginsWithThree ==
    \A line \in RuleLines, tail \in RuleTails :
        (text = line \o tail /\ pc = "parsed") =>
            (ast[1].type = "hr" <=>
                (/\ IsRule(line)
                 /\ Len(line) >= 3
                 /\ line[2] = line[1]
                 /\ line[3] = line[1]))


\* C18: a paragraph takes the consecutive lines that are not blank and that
\* start no other block, also a line that only begins with * - + or digits
\* and a dot without being a block marker; its text is those lines joined by
\* single spaces; it ends at a blank line, a line of white space only or a
\* line that starts another block, which is left for the next block.
C18_ParagraphLines ==
    \A line \in Continuations :
        /\ (text = <<"a", NL>> \o line /\ pc = "parsed") =>
               /\ Len(ast) = 1
               /\ ast[1].type = "paragraph"
               /\ ast[1].content = <<"a", " ">> \o line
        /\ \A ender \in Enders :
               (/\ text = <<"a", NL>> \o line \o <<NL>> \o ender \o <<NL, "z">>
                /\ pc = "parsed") =>
                   /\ Len(ast) >= 2
                   /\ ast[1].type = "paragraph"
                   /\ ast[1].content = <<"a", " ">> \o line

\* what holds of the plain continuation line b: one paragraph, whose text
\* keeps the newline between the two lines
C18_NewlineKept ==
    (text = <<"a", NL, "b">> /\ pc = "parsed") =>
        /\ Len(ast) = 1
        /\ ast[1].type = "paragraph"
        /\ ast[1].content = <<"a", NL, "b">>


\* a line of a quote without its marker and without the one space behind
\* the marker, when there is one
Unquoted(line) ==
    IF Len(line) >= 2 /\ line[2] = " "
    THEN SubSeq(line, 3, Len(line))
    ELSE SubSeq(line, 2, Len(line))

\* C19: a run of n consecutive lines that start with > gives exactly one
\* blockquote node; its content is the n lines, each without its > and the
\* one space behind it, joined by single newlines; the run ends at the first
\* blank line or line that does not start with >, which is left for the
\* next block.
C19_QuoteRun ==
    \A lines \in QuoteRuns, tail \in QuoteTails :
        (text = Join(lines, <<NL>>) \o tail /\ pc = "parsed") =>
            /\ ast[1].type = "blockquote"
            /\ ast[1].content =
                   Join([i \in DOMAIN lines |-> Unquoted(lines[i])], <<NL>>)
            /\ IF tail = <<>>
               THEN Len(ast) = 1
               ELSE /\ Len(ast) = 2
                    /\ ast[2].type = "paragraph"
                    /\ ast[2].content = <<"z">>

\* what C19 says of the lines with at most one space behind the marker
C19_QuoteRunOneSpace ==
    \A lines \in QuoteRuns, tail \in QuoteTails :
        (/\ text = Join(lines, <<NL>>) \o tail
         /\ pc = "parsed"
         /\ \A i \in DOMAIN lines : lines[i] # <<">", " ", " ", "c">>) =>
            /\ ast[1].type = "blockquote"
            /\ ast[1].content =
                   Join([i \in DOMAIN lines |-> Unquoted(lines[i])], <<NL>>)
            /\ IF tail = <<>>
               THEN Len(ast) = 1
               ELSE /\ Len(ast) = 2
                    /\ ast[2].type = "paragraph"
                    /\ ast[2].content = <<"z">>


\* C20: a fenced code block is closed only by a line that is exactly three
\* backticks; a line inside the block that starts with three backticks and
\* goes on with other characters does not close it and is kept as code
\* content.
C20_OnlyExactFenceCloses ==
    \A line \in FenceLikeLines :
        (text = FenceInside(line) /\ pc = "parsed") =>
            ast = <<[type |-> "code",
                     content |-> <<"a", NL>> \o line \o <<NL, "b">>,
                     language |-> <<>>]>>

\* what holds of the texts of C20: the line that starts with three backticks
\* closes the block, the rest of that line is dropped, b is a paragraph and
\* the last line opens a second block
C20_FenceLikeLineCloses ==
    \A line \in FenceLikeLines :
        (text = FenceInside(line) /\ pc = "parsed") =>
            /\ Len(ast) = 3
            /\ ast[1] = [type |-> "code", content |-> <<"a">>,
                         language |-> <<>>]
            /\ ast[2].type = "paragraph"
            /\ ast[2].content = <<"b">>
            /\ ast[3] = [type |-> "code", content |-> <<>>, language |-> <<>>]


\* one or more marker characters stand at q, a space behind them
HeadingMarkerAt(q) ==
    /\ At(text, q) = "#"
    /\ At(text, SkipChar(text, q, "#")) = " "

\* what C21 says of one pass of the loop of parse(): q is where the block read
\* in this pass starts
HeadingNeedsSpaceStep ==
    \A q \in {skipEmptyLines(text, position)} :
        (pc = "parse" /\ pc' = "parse" /\ q < length) =>
            /\ (headings' # headings \/ ast'[Len(ast')].type = "heading") =>
                   HeadingMarkerAt(q)
            /\ (At(text, q) = "#" /\ ~HeadingMarkerAt(q)) =>
                   /\ headings' = headings
                   /\ Len(ast') = Len(ast) + 1
                   /\ ast'[Len(ast')].type = "paragraph"

\* C21: a line is a heading only when it starts with one or more marker
\* characters followed by a space; a line that starts with a marker character
\* without a space behind the markers is no heading, adds nothing to the
\* headings of the table of contents and is read as a paragraph.
C21_HeadingNeedsSpace == [][HeadingNeedsSpaceStep]_vars

\* what holds in place of C21: every block that starts with a marker
\* character is a heading and is pushed onto the headings, a space behind the
\* markers or not
HashAloneStep ==
    \A q \in {skipEmptyLines(text, position)} :
        (pc = "parse" /\ pc' = "parse" /\ q < length /\ At(text, q) = "#") =>
            /\ Len(ast') = Len(ast) + 1
            /\ ast'[Len(ast')].type = "heading"
            /\ headings' = Append(headings, ast'[Len(ast')])

C21_HashAloneMakesHeading == [][HashAloneStep]_vars


\* C22: the parser keeps nothing between calls of parse(): every call made
\* on a text, on the same parser or on a new one, returns the same nodes and
\* the same headings (none are carried over from the call before), and what
\* a call has returned is not changed by anything a later call does.
C22_NoStateBetweenCalls ==
    /\ [](\A i, j \in DOMAIN returned :
              /\ returned[i].ast = returned[j].ast
              /\ returned[i].headings = returned[j].headings)
    /\ [][\A i \in DOMAIN returned :
              /\ returned'[i].ast = returned[i].ast
              /\ returned'[i].headings = returned[i].headings]_vars

\* two calls have returned on a text with three headings: each returned the
\* three, in arrays of their own
C22_TwoCallsReturned ==
    /\ pc = "parsed"
    /\ Len(returned) = 2
    /\ Len(returned[1].headings) = 3
    /\ Len(returned[2].headings) = 3
    /\ Len(returned[1].ast) >= 3
    /\ returned[1].array # returned[2].array


\* what C23 says of one step: a call of parseBlock that returns was made with
\* the cursor before the end of the text and leaves it further on, and the
\* return of parse() leaves it where it is
CursorAdvancesStep ==
    /\ (pc = "parse" /\ pc' = "parse") =>
           (position < length /\ position' > position)
    /\ (pc = "parse" /\ pc' = "parsed") => position' = position

Unindented(line) == SubSeq(line, skipWhitespace(line, 0) + 1, Len(line))

\* the line, its indentation aside, begins with a marker of an unordered
\* list: one of - * + and a space
IsUnorderedItemLine(line) ==
    /\ At(Unindented(line), 0) \in {"-", "*", "+"}
    /\ At(Unindented(line), 1) = " "

\* the line, its indentation aside, begins with a marker of an ordered list:
\* digits, a dot and a space
IsOrderedItemLine(line) ==
    /\ isDigit(At(Unindented(line), 0))
    /\ At(Unindented(line), SkipDigits(Unindented(line), 0)) = "."
    /\ At(Unindented(line), SkipDigits(Unindented(line), 0) + 1) = " "

\* the lines of the text that begin with a marker of the kind of list
ItemLines(ordered) ==
    {i \in DOMAIN Split(text, NL) :
        IF ordered
        THEN IsOrderedItemLine(Split(text, NL)[i])
        ELSE IsUnorderedItemLine(Split(text, NL)[i])}

\* C24: every item of a list node comes from a line that begins with a valid
\* marker of the list's kind (one of - * + and a space; digits, a dot and a
\* space), each item from a line of its own: the lists of a kind have no more
\* items than the text has such lines.  A line behind an item that starts with
\* a marker character without being a marker, or that is a rule, gives no
\* item.
C24_ItemsFromMarkerLines ==
    pc = "parsed" =>
        \A ordered \in BOOLEAN :
            Len(Flatten([n \in DOMAIN ast |->
                            IF ast[n].type = "list" /\ ast[n].ordered = ordered
                            THEN ast[n].children
                            ELSE <<>>]))
                <= Cardinality(ItemLines(ordered))

\* what holds in place of C24 for the line behind the first item of an
\* unordered list: a marker character at its start makes it an item, whatever
\* follows the character
C24_MarkerCharacterSuffices ==
    \A second \in {<<"-", "b">>, <<"*", "*", "b", "o", "l", "d", "*", "*">>,
                   <<"-", "-", "-">>} :
        (text = <<"-", " ", "a", NL>> \o second /\ pc = "parsed") =>
            /\ Len(ast) = 1
            /\ Contents(ast[1].children) = <<<<"a">>, Tail(second)>>


\* C25: when parseList stops because the next line is not an item of its
\* list (no marker of the list's kind, or another indentation), it has
\* consumed no character of that line but white space: the cursor it leaves
\* is not behind the line's first other character, and a later block is read
\* from there.
C25_StopLineLeftAhead ==
    \A pair \in StopPairs :
        text = pair[1] \o <<NL>> \o pair[2] =>
            /\ (pc = "parse" /\ Len(ast) = 1) =>
                   /\ Contents(ast[1].children) = <<<<"a">>>>
                   /\ position
                          <= Len(pair[1]) + 1 + skipWhitespace(pair[2], 0)
            /\ pc = "parsed" => Len(ast) = 2

\* what C25 says of the lines indented otherwise than the first item
C25_IndentedStopLineLeftAhead ==
    \A pair \in StopPairs :
        (text = pair[1] \o <<NL>> \o pair[2] /\ pair[2][1] = " ") =>
            /\ (pc = "parse" /\ Len(ast) = 1) =>
                   /\ Contents(ast[1].children) = <<<<"a">>>>
                   /\ position
                          <= Len(pair[1]) + 1 + skipWhitespace(pair[2], 0)
            /\ pc = "parsed" => Len(ast) = 2

\* what holds in place of C25 in an ordered list: the digits at the start of
\* the line are consumed by the search for a marker, and the paragraph read
\* behind the list starts behind them
C25_DigitsConsumed ==
    (text = <<"1", ".", " ", "a", NL, "2", "x">> /\ pc = "parsed") =>
        /\ Len(ast) = 2
        /\ Contents(ast[1].children) = <<<<"a">>>>
        /\ ast[2].type = "paragraph"
        /\ ast[2].content = <<"x">>



\* the indices at which a heading element with an id starts in a string of
\* HTML
P1_headingStarts(h) ==
    {i \in 1 .. Len(h) :
        /\ StartsAt(h, i, <<"<", "h">>)
        /\ i + 2 <= Len(h)
        /\ h[i + 2] \in Digits
        /\ StartsAt(h, i + 3, <<" ", "i", "d", "=", "\"">>)}

\* the indices of a set, ascending
InOrder(S) ==
    [k \in 1 .. Cardinality(S) |->
        CHOOSE i \in S : Cardinality({j \in S : j < i}) = k - 1]

\* the ids of the heading elements of a string of HTML, in document order
P1_headingIds(h) ==
    [k \in 1 .. Cardinality(P1_headingStarts(h)) |->
        SubSeq(h, InOrder(P1_headingStarts(h))[k] + 8,
               Least({j \in InOrder(P1_headingStarts(h))[k] + 8 .. Len(h) :
                         h[j] = "\""}) - 1)]

\* the ids of the entries of tocItems, in their order
P1_tocIds(items) == [k \in 1 .. Len(items) |-> items[k].id]

\* no two members of a sequence are equal
Distinct(ss) == \A j, k \in 1 .. Len(ss) : j # k => ss[j] # ss[k]

\* the text holds a collapsible section
P1_hasCollapsible(t) == FirstMatchFrom(t, 1, P1_collapseRegex) # 0

\* C26: after parseMarkdown(text) has returned, tocItems holds one entry for
\* each heading element of the returned HTML, in document order, and no two
\* heading elements of that HTML share an id.
C26_TocMatchesHeadings ==
    pc \in {"output", "toc"} =>
        /\ P1_tocIds(tocItems) = P1_headingIds(html)
        /\ Distinct(P1_headingIds(html))

\* C26, what holds: for a text without a collapsible section the entries of
\* tocItems are the heading elements of the HTML in document order, with
\* distinct ids, whatever tocItems held before the call.
C26_TocMatchesWithoutCollapsible ==
    (pc \in {"output", "toc"} /\ ~P1_hasCollapsible(text)) =>
        /\ P1_tocIds(tocItems) = P1_headingIds(html)
        /\ Distinct(P1_headingIds(html))

\* C26, what holds: a heading before a collapsible section that holds a heading
\* is numbered after it, so tocItems lists the heading of the section first
\* while the HTML shows it second.
C26_SectionHeadingListedFirst ==
    (text = <<"#", " ", "A", NL, "<", "!", "-", "-", " ", "c", "o", "l",
              "l", "a", "p", "s", "e", " ", "-", "-", ">", NL, "#", "#",
              " ", "B", NL, "<", "!", "-", "-", " ", "/", "c", "o", "l",
              "l", "a", "p", "s", "e", " ", "-", "-", ">">>
     /\ pc \in {"output", "toc"}) =>
        /\ P1_tocIds(tocItems) = <<
            <<"h", "e", "a", "d", "i", "n", "g", "-", "0">>,
                <<"h", "e", "a", "d", "i", "n", "g", "-", "1">>>>
        /\ tocItems[1].text = <<"B">>
        /\ P1_headingIds(html) = <<
            <<"h", "e", "a", "d", "i", "n", "g", "-", "1">>,
                <<"h", "e", "a", "d", "i", "n", "g", "-", "0">>>>

\* C26, what holds: of two collapsible sections with a heading each, the
\* heading of the first is in the HTML and not in tocItems, and both heading
\* elements carry the id heading-0.
C26_TwoSectionsShareId ==
    (text = P1_twoSections /\ pc \in {"output", "toc"}) =>
        /\ P1_tocIds(tocItems) = <<
            <<"h", "e", "a", "d", "i", "n", "g", "-", "0">>>>
        /\ tocItems[1].text = <<"B">>
        /\ P1_headingIds(html) = <<
            <<"h", "e", "a", "d", "i", "n", "g", "-", "0">>,
                <<"h", "e", "a", "d", "i", "n", "g", "-", "0">>>>


\* the preview and the TOC show the render of what the textarea holds, and
\* nothing is left to run
PreviewShowsEditor ==
    /\ pc = "highlighted"
    /\ timers.pending = {}
    /\ text = editor.value
    /\ html = processCollapsibleSections(render(ast))
    /\ toc = generateTOC(headings)

\* at most one timer is pending, and it is the one updateTimeout names
OnePending ==
    /\ Cardinality(timers.pending) <= 1
    /\ timers.pending # {} => timers.pending = {editor.updateTimeout}

\* a step of the input listener leaves only the timer it set pending, and a
\* step in which a timer fires leaves none pending
DebounceStep ==
    /\ editor' # editor => timers'.pending = {editor'.updateTimeout}
    /\ timers'.pending # timers.pending /\ editor' = editor =>
           /\ timers'.pending = {}
           /\ text' = editor.value

\* C27: every input event clears the timer set before it and sets a new one,
\* so at most one update of the preview is pending; once the input events
\* stop, updatePreview runs once more and the preview and the TOC then show
\* the render of the final content of the editor.
C27_DebouncedPreview ==
    /\ []OnePending
    /\ [][DebounceStep]_vars
    /\ <>[]PreviewShowsEditor

\* C27, what holds: at most one timer is pending at any time, an input event
\* leaves only its own timer pending, and the timer that fires is the last
\* one set and reads the content the editor holds then.
C27_AtMostOnePending == []OnePending /\ [][DebounceStep]_vars

\* C27, what holds: a pending timer leads to a call of updatePreview on the
\* content the editor holds, with no timer left pending.
C27_TimerLeadsToUpdate ==
    (timers.pending # {}) ~>
        (timers.pending = {} /\ pc = "parse" /\ text = editor.value)

\* C27, what holds: in the end either the preview shows the final content or
\* updatePreview is in a loop of parseInline that never ends.
C27_ShownUnlessParseSpins == <>[](PreviewShowsEditor \/ pc = "spinning")

\* C27, what holds: two input events with no timer firing between them are
\* followed by one parse only.
C27_BurstOfTwoParsedOnce ==
    (timers.last = 2 /\ Len(returned) = 1) =>
        (timers.pending = {2} \/ pc # "highlighted")

\* C28: the overlays in the document are as many as the images of the preview
\* that carry the class expanded.
C28_OverlaysMatchExpanded ==
    Len(document.overlays) = Cardinality(document.expanded)

\* C28, what holds: as long as the preview was written once, only one image
\* at a time was expanded and every overlay was clicked while it was the only
\* one, the overlays are as many as the expanded images.
C28_SingleImageToggles ==
    (document.images <= 1 /\ Len(returned) <= 1) =>
        Len(document.overlays) = Cardinality(document.expanded)

\* C28, what holds: an overlay outlives the image it was made for when the
\* preview is written again.
C28_OverlayOutlivesImage ==
    (\E j \in 1 .. Len(document.overlays) : document.overlays[j] = 0) =>
        Len(document.overlays) > Cardinality(document.expanded)


\* what a line is to the loop of part_000, given whether it stands inside a
\* fenced block
P0_lineKind(line, inCode) ==
    IF StartsWith(line, Fence) THEN (IF inCode THEN "close" ELSE "open")
    ELSE IF inCode THEN "inside"
    ELSE IF MatchLine(line, P0_headingRegex).ok THEN "heading"
    ELSE IF StartsWith(line, <<">", " ">>) THEN "blockquote"
    ELSE IF MatchLine(line, P0_bulletRegex).ok
            \/ MatchLine(line, P0_numberRegex).ok THEN "item"
    ELSE IF line = <<"-", "-", "-">> THEN "hr"
    ELSE IF line # <<>> THEN "paragraph"
    ELSE "blank"

\* the kinds of the lines from the line i on
RECURSIVE P0_lineKinds(_, _, _)
P0_lineKinds(lines, i, inCode) ==
    IF i > Len(lines) THEN <<>>
    ELSE <<P0_lineKind(TrimEnd(lines[i]), inCode)>>
         \o P0_lineKinds(lines, i + 1,
                IF StartsWith(TrimEnd(lines[i]), Fence) THEN ~inCode
                ELSE inCode)

LineKinds(t) == P0_lineKinds(Split(t, NL), 1, FALSE)

\* the members of a sequence at the indices in S, in order
Pick(ss, S) == [n \in 1 .. Cardinality(S) |-> ss[InOrder(S)[n]]]

\* the types of the blocks the lines of those kinds stand for, a run of item
\* lines standing for one list
ExpectedTypes(kinds) ==
    Pick([k \in DOMAIN kinds |->
              IF kinds[k] = "item" THEN "list"
              ELSE IF kinds[k] = "close" THEN "code" ELSE kinds[k]],
         {k \in DOMAIN kinds :
             /\ kinds[k] \notin {"open", "inside", "blank"}
             /\ ~(kinds[k] = "item" /\ k > 1 /\ kinds[k - 1] = "item")})

\* the types of blocks, with lists that follow each other taken as one
BlockTypes(blocks) ==
    Pick([k \in DOMAIN blocks |-> blocks[k].type],
         {k \in DOMAIN blocks :
             ~(blocks[k].type = "list" /\ k > 1
               /\ blocks[k - 1].type = "list")})

\* the items of the list blocks, in order
RECURSIVE BlockItems(_)
BlockItems(blocks) ==
    IF blocks = <<>> THEN <<>>
    ELSE (IF Head(blocks).type = "list" THEN Head(blocks).items ELSE <<>>)
         \o BlockItems(Tail(blocks))

\* the item lines of a text without their markers, in order
ItemLineContents(t) ==
    Pick([k \in DOMAIN Split(t, NL) |->
              IF MatchLine(TrimEnd(Split(t, NL)[k]), P0_bulletRegex).ok
              THEN P0_withoutMatch(TrimEnd(Split(t, NL)[k]), P0_bulletRegex)
              ELSE P0_withoutMatch(TrimEnd(Split(t, NL)[k]), P0_numberRegex)],
         {k \in DOMAIN LineKinds(t) : LineKinds(t)[k] = "item"})

\* every fence of the text that opens a block is followed by one that closes
\* it
FencesClosed(t) ==
    Cardinality({k \in DOMAIN LineKinds(t) : LineKinds(t)[k] = "open"})
    = Cardinality({k \in DOMAIN LineKinds(t) : LineKinds(t)[k] = "close"})

\* every run of item lines is followed by a line that is blank, a rule or a
\* paragraph
ListsFlushed(t) ==
    \A k \in DOMAIN LineKinds(t) :
        LineKinds(t)[k] = "item" =>
            /\ k < Len(LineKinds(t))
            /\ LineKinds(t)[k + 1] \in {"item", "blank", "hr", "paragraph"}

\* C29: parse of part_000 returns the blocks in the order of their lines, and
\* every item line of the text is an item of exactly one list block: a list
\* at the end of the text is emitted, and a list followed by a heading, a
\* blockquote or a fence is emitted before that block.
C29_BlocksInLineOrder ==
    (pc = "blocks" /\ FencesClosed(text)) =>
        /\ BlockTypes(ast) = ExpectedTypes(LineKinds(text))
        /\ BlockItems(ast) = ItemLineContents(text)

\* C29, what holds: when every run of item lines is followed by a blank
\* line, a rule or a paragraph, the blocks are in the order of their lines
\* and every item line is an item of one list block.
C29_FlushedListsInOrder ==
    (pc = "blocks" /\ FencesClosed(text) /\ ListsFlushed(text)) =>
        /\ BlockTypes(ast) = ExpectedTypes(LineKinds(text))
        /\ BlockItems(ast) = ItemLineContents(text)

\* C29, what holds: a list that runs to the last line of the text is in no
\* block.
C29_ListAtEndDropped ==
    (pc = "blocks" /\ text = <<"p", NL, "-", " ", "a">>) =>
        ast = <<[type |-> "paragraph", content |-> <<"p">>]>>

\* C29, what holds: a list followed by a heading is emitted behind the
\* heading, when a later line flushes it.
C29_ListBehindHeading ==
    (pc = "blocks"
     /\ text = <<"-", " ", "a", NL, "#", " ", "H", NL, "p">>) =>
        ast = <<[type |-> "heading", content |-> <<"H">>, level |-> 1],
                [type |-> "list", items |-> <<<<"a">>>>, content |-> <<>>],
                [type |-> "paragraph", content |-> <<"p">>]>>


\* the line of part_000 that opens a fenced block no later line closes, 0
\* when there is none
P0_openFence(t) ==
    IF FencesClosed(t) THEN 0
    ELSE Greatest({k \in DOMAIN LineKinds(t) : LineKinds(t)[k] = "open"})

\* the line of part_002 that opens a fenced block no later line closes, 0
\* when there is none: open is the line that opened the block the line i is
\* in, 0 outside a block
RECURSIVE P2_openFenceFrom(_, _, _)
P2_openFenceFrom(lines, i, open) ==
    IF i > Len(lines) THEN open
    ELSE IF open = 0
    THEN P2_openFenceFrom(lines, i + 1,
             IF MatchLine(lines[i], P2_FENCED_CODE_BLOCK_START_REGEX).ok
             THEN i ELSE 0)
    ELSE P2_openFenceFrom(lines, i + 1,
             IF MatchLine(lines[i], P2_FENCED_CODE_BLOCK_END_REGEX).ok
             THEN 0 ELSE open)

P2_openFence(t) == P2_openFenceFrom(Split(t, NL), 1, 0)

\* the lines of a text behind the line k
LinesBehind(t, k) == SubSeq(Split(t, NL), k + 1, Len(Split(t, NL)))

\* each line with a newline behind it, one after the other
RECURSIVE LinesWithNewlines(_)
LinesWithNewlines(lines) ==
    IF lines = <<>> THEN <<>>
    ELSE Head(lines) \o <<NL>> \o LinesWithNewlines(Tail(lines))

\* C30: in part_000 and in part_002 an opening fence that no fence closes
\* before the end of the text, with lines that are not blank behind it, still
\* yields a code block, the last of the result, whose content is the lines
\* behind the opening fence.
C30_UnclosedFenceKept ==
    /\ (pc = "blocks" /\ P0_openFence(text) # 0
        /\ Trim(Join(LinesBehind(text, P0_openFence(text)), <<NL>>)) # <<>>)
       =>
           /\ ast # <<>>
           /\ ast[Len(ast)].type = "code"
           /\ ast[Len(ast)].content =
                  Join([k \in DOMAIN LinesBehind(text, P0_openFence(text)) |->
                           TrimEnd(LinesBehind(text, P0_openFence(text))[k])],
                       <<NL>>)
    /\ (pc = "tokens" /\ P2_openFence(text) # 0
        /\ Trim(Join(LinesBehind(text, P2_openFence(text)), <<NL>>)) # <<>>)
       =>
           /\ ast # <<>>
           /\ ast[Len(ast)].type = "fenced-code"
           /\ ast[Len(ast)].content =
                  LinesWithNewlines(LinesBehind(text, P2_openFence(text)))

\* the types of the blocks or tokens
TypesOf(blocks) == [k \in DOMAIN blocks |-> blocks[k].type]

\* C30, what holds: in both variants the result for a text with an opening
\* fence that no fence closes is the result for the lines before that fence:
\* the fence and the lines behind it are in no block.
C30_UnclosedFenceDropped ==
    /\ (pc = "blocks" /\ P0_openFence(text) # 0) =>
           ast = P0_parse(Join(SubSeq(Split(text, NL), 1,
                                      P0_openFence(text) - 1), <<NL>>))
    /\ (pc = "tokens" /\ P2_openFence(text) # 0) =>
           ast = P2_parse(Join(SubSeq(Split(text, NL), 1,
                                      P2_openFence(text) - 1), <<NL>>)
                          ).parsedTokens

\* C30, what holds: a fenced block that a fence closes is a code block with
\* the lines between the fences as its content, in both variants.
C30_ClosedFenceKept ==
    (text = <<Backtick, Backtick, Backtick, NL, "p", NL, Backtick, Backtick,
              Backtick>>) =>
        /\ pc = "blocks" =>
               ast = <<[type |-> "code", content |-> <<"p">>,
                        lang |-> <<>>]>>
        /\ pc = "tokens" =>
               ast = <<[type |-> "fenced-code", content |-> <<"p", NL>>,
                        raw |-> <<Backtick, Backtick, Backtick, NL, "p">>,
                        lang |-> <<>>]>>

====
